---- MODULE Spec2Model ----
(***************************************************************************)
(* Turn-synchronisation and resolution engine of the 4X game backend:      *)
(*   backend/src/game/models.py, backend/src/game/rules.py                 *)
(*   backend/src/api/persistent_game_controller.py                         *)
(*   backend/src/database/repository.py                                    *)
(* Python None is written None (0) for ids and NoneStr for strings.        *)
(***************************************************************************)
EXTENDS Integers, Naturals, Sequences, FiniteSets, TLC

\* ------------------------------------------------------------------ bounds
\* The source plays on a 20 x 20 map, draws start positions in 2..17 and
\* keeps starting workers 5 apart; the model scales the three down together.
MapW == 3
MapH == 2
EdgeMargin == 0
MinStartDist == 2
\* seeds passed to create_game: 1..NumSeeds
NumSeeds == 2
\* longest player list handed to create_game (the source accepts up to 8)
MaxListLen == 2
\* concurrent request handlers (coroutines in flight on the event loop)
NumHandlers == 2
\* submit calls are drawn while state.turn < MaxTurn, MaxSubmits in all
MaxTurn == 2
MaxSubmits == 4
\* the source ends a game at turn 100 and snapshots every 10th turn; the
\* model scales both down so that both happen within MaxTurn
GameMaxTurns == 2
SnapshotEvery == 2
\* units a game may hold before TRAIN_UNIT inputs stop being drawn
MaxUnitId == 3
\* city ids named by actions: 1..MaxCityId
MaxCityId == 2
\* calls of the rules on one game in SpecRules
MaxCalls == 3
\* process restarts, and storage faults (a failed write or a damaged row)
MaxRestarts == 1
MaxFaults == 1
\* reads of the game (GET /state, POST restore) under the recovery specification
MaxReads == 1
\* submissions under the recovery specification
MaxSerialSubmits == 4
\* turns of a game played to the end, enough for a city's yield to add a
\* point to its owner's score
LongTurns == 20
\* calls of the executors on one battlefield
MaxFieldCalls == 2
\* width and height of the map on which visibility is computed
FogW == 5
FogH == 5

\* ------------------------------------------------------- program constants
MinPlayers == 2
MaxPlayers == 8
MaxAttempts == 100
CityFoodCost == 30
CityDefaultHp == 10
StartWorkerHp == 100
StartWorkerMoves == 2
WallCounterDamage == 2

None == 0
NoneStr == "none"

PlayerNames == {"A", "B"}
Seeds == 1..NumSeeds

\* ------------------------------------------------------------- models.py
Coord(x, y) == [x |-> x, y |-> y]

Abs(n) == IF n < 0 THEN -n ELSE n

distance_to(a, b) == Abs(a.x - b.x) + Abs(a.y - b.y)

ResourceBag(food, wood, ore, crystal) ==
    [food |-> food, wood |-> wood, ore |-> ore, crystal |-> crystal]

EmptyBag == ResourceBag(0, 0, 0, 0)

BagAdd(a, b) ==
    ResourceBag(a.food + b.food, a.wood + b.wood, a.ore + b.ore, a.crystal + b.crystal)

\* the difference as it would be if nothing were taken
BagSubNothing(a, b) == a

BagSub(a, b) ==
    ResourceBag(a.food - b.food, a.wood - b.wood, a.ore - b.ore, a.crystal - b.crystal)

\* the check as it would be if every cost were affordable
can_afford_always(bag, cost) == TRUE

can_afford(bag, cost) ==
    /\ bag.food >= cost.food
    /\ bag.wood >= cost.wood
    /\ bag.ore >= cost.ore
    /\ bag.crystal >= cost.crystal

UnitTypes == {"scout", "worker", "soldier", "archer"}

UNIT_STATS ==
    [t \in UnitTypes |->
        CASE t = "scout" ->
               [cost |-> ResourceBag(20, 0, 0, 0), moves |-> 3, hp |-> 2,
                sight |-> 3, attack |-> 1, attack_range |-> 1]
          [] t = "worker" ->
               [cost |-> ResourceBag(30, 0, 0, 0), moves |-> 2, hp |-> 2,
                sight |-> 2, attack |-> 0, attack_range |-> 0]
          [] t = "soldier" ->
               [cost |-> ResourceBag(30, 0, 10, 0), moves |-> 2, hp |-> 4,
                sight |-> 2, attack |-> 2, attack_range |-> 1]
          [] t = "archer" ->
               [cost |-> ResourceBag(30, 10, 0, 0), moves |-> 2, hp |-> 3,
                sight |-> 3, attack |-> 2, attack_range |-> 2]]

Tile(id, loc, terrain, resource) ==
    [id |-> id, loc |-> loc, terrain |-> terrain, resource |-> resource,
     owner |-> NoneStr, city_id |-> None, unit_id |-> None, improvement |-> NoneStr]

Unit(id, owner, type, hp, moves_left, loc) ==
    [id |-> id, owner |-> owner, type |-> type, hp |-> hp,
     moves_left |-> moves_left, loc |-> loc]

City(id, owner, loc) ==
    [id |-> id, owner |-> owner, loc |-> loc, hp |-> CityDefaultHp, buildings |-> {}]

can_attack(unit, target_loc) ==
    /\ distance_to(unit.loc, target_loc) <= UNIT_STATS[unit.type].attack_range
    /\ UNIT_STATS[unit.type].attack > 0

has_walls(city) == "walls" \in city.buildings

\* multipliers are the fractions num/den: 1.5 = 3/2, 0.75 = 3/4, 1.0 = 1/1
food_multiplier(city) ==
    IF "granary" \in city.buildings THEN [num |-> 3, den |-> 2] ELSE [num |-> 1, den |-> 1]

unit_cost_multiplier(city) ==
    IF "barracks" \in city.buildings THEN [num |-> 3, den |-> 4] ELSE [num |-> 1, den |-> 1]

\* the scaling as it would be if it rounded up
ScaleIntUp(v, m) == (v * m.num + m.den - 1) \div m.den

\* int(v * m) for v >= 0
ScaleInt(v, m) == (v * m.num) \div m.den

\* a mapping (Python dict) as a function; m with key k set to v, and without k
DictSet(m, k, v) == [x \in DOMAIN m \cup {k} |-> IF x = k THEN v ELSE m[x]]

DictDel(m, k) == [x \in DOMAIN m \ {k} |-> m[x]]

EmptyDict == [x \in {} |-> None]

GameState(seed, tiles, players) ==
    [turn |-> 0, rng_state |-> seed, map_width |-> MapW, map_height |-> MapH,
     tiles |-> tiles, units |-> EmptyDict, cities |-> EmptyDict,
     players |-> players, diplomacy |-> EmptyDict, stockpiles |-> EmptyDict,
     next_unit_id |-> 1, next_city_id |-> 1, max_turns |-> GameMaxTurns]

\* index of the first tile whose loc is loc, 0 when there is none
TileIndex(state, loc) ==
    LET hits == {i \in 1..Len(state.tiles) : state.tiles[i].loc = loc}
    IN IF hits = {} THEN 0 ELSE CHOOSE i \in hits : \A j \in hits : i <= j

get_tile(state, loc) ==
    IF TileIndex(state, loc) = 0 THEN None ELSE state.tiles[TileIndex(state, loc)]

get_unit(state, unit_id) ==
    IF unit_id \in DOMAIN state.units THEN state.units[unit_id] ELSE None

get_city(state, city_id) ==
    IF city_id \in DOMAIN state.cities THEN state.cities[city_id] ELSE None

\* get_diplomatic_state as it would be if it read the diplomacy table only
get_diplomatic_state_by_treaty(state, player1, player2) ==
    IF <<player1, player2>> \in DOMAIN state.diplomacy
    THEN state.diplomacy[<<player1, player2>>]
    ELSE IF <<player2, player1>> \in DOMAIN state.diplomacy
         THEN state.diplomacy[<<player2, player1>>]
    ELSE "peace"

get_diplomatic_state(state, player1, player2) ==
    IF player1 = player2 THEN "alliance"
    ELSE IF <<player1, player2>> \in DOMAIN state.diplomacy
         THEN state.diplomacy[<<player1, player2>>]
    ELSE IF <<player2, player1>> \in DOMAIN state.diplomacy
         THEN state.diplomacy[<<player2, player1>>]
    ELSE "peace"

\* json.dumps(model_dump(), sort_keys=True) is a canonical text of the field
\* values; the digest is modelled by that canonical value itself.
hash_state(state) == [digest_of |-> state]

\* ------------------------------------------- random.Random(seed) stand-in
\* A full-period congruential generator on 0..99 stands for the Mersenne
\* twister: one deterministic stream per seed.
RngSeed(seed) == seed % 100

RngNext(s) == (21 * s + 7) % 100

\* rng.randint(lo, hi) read off the generator state s
RandInt(s, lo, hi) == lo + ((s \div 3) % (hi - lo + 1))

\* --------------------------------------------------------------- rules.py
TerrainOf(roll) ==
    IF roll < 40 THEN "plains"
    ELSE IF roll < 60 THEN "forest"
    ELSE IF roll < 80 THEN "mountain"
    ELSE "water"

OwnResource(terrain) ==
    CASE terrain = "plains" -> "food"
      [] terrain = "forest" -> "wood"
      [] terrain = "mountain" -> "ore"
      [] OTHER -> NoneStr

ResourceLimit(terrain) ==
    CASE terrain = "plains" -> 30
      [] terrain = "forest" -> 40
      [] terrain = "mountain" -> 50
      [] OTHER -> 0

\* the if/elif chain of generate_map: the terrain's own resource on the first
\* draw, else a rare crystal on one more draw; s is the generator state after
ResourceDraw(terrain, s) ==
    LET s1 == RngNext(s)
        s2 == RngNext(s1)
    IN IF terrain = "water"
       THEN [resource |-> IF s1 < 5 THEN "crystal" ELSE NoneStr, s |-> s1]
       ELSE IF s1 < ResourceLimit(terrain)
       THEN [resource |-> OwnResource(terrain), s |-> s1]
       ELSE [resource |-> IF s2 < 5 THEN "crystal" ELSE NoneStr, s |-> s2]

RECURSIVE MapTiles(_, _, _, _, _)
MapTiles(width, height, s, tile_id, acc) ==
    IF tile_id >= width * height THEN acc
    ELSE LET s1 == RngNext(s)
             terrain == TerrainOf(s1)
             res == ResourceDraw(terrain, s1)
             loc == Coord(tile_id % width, tile_id \div width)
         IN MapTiles(width, height, res.s, tile_id + 1,
                     Append(acc, Tile(tile_id, loc, terrain, res.resource)))

generate_map(width, height, seed) == MapTiles(width, height, RngSeed(seed), 0, <<>>)

\* ------------------------------------------------ actions (models.py 343-398)
\* One record shape for the six action classes: id is the class's own id
\* field (unit_id, attacker_id, worker_id or city_id); fields a class does not
\* declare are filled with None and never read, see HasAttr.
ActionClasses ==
    {"MoveAction", "AttackAction", "BuildImprovementAction", "FoundCityAction",
     "TrainUnitAction", "BuildBuildingAction"}

Action(cls, type, id, to, target_id, target_type, unit_type) ==
    [cls |-> cls, type |-> type, id |-> id, to |-> to, target_id |-> target_id,
     target_type |-> target_type, unit_type |-> unit_type]

MoveAction(unit_id, to) ==
    Action("MoveAction", "MOVE", unit_id, to, None, NoneStr, NoneStr)

AttackAction(attacker_id, target_id, target_type) ==
    Action("AttackAction", "ATTACK", attacker_id, Coord(0, 0), target_id, target_type, NoneStr)

BuildImprovementAction(worker_id) ==
    Action("BuildImprovementAction", "BUILD_IMPROVEMENT", worker_id, Coord(0, 0), None,
           NoneStr, NoneStr)

FoundCityAction(worker_id) ==
    Action("FoundCityAction", "FOUND_CITY", worker_id, Coord(0, 0), None, NoneStr, NoneStr)

TrainUnitAction(city_id, unit_type) ==
    Action("TrainUnitAction", "TRAIN_UNIT", city_id, Coord(0, 0), None, NoneStr, unit_type)

BuildBuildingAction(city_id) ==
    Action("BuildBuildingAction", "BUILD_BUILDING", city_id, Coord(0, 0), None, NoneStr,
           NoneStr)

\* type is a plain str field with a default: a caller may set any tag on any class
Retag(action, type) == [action EXCEPT !.type = type]

\* the attributes each action class declares
HasAttr(action, name) ==
    CASE action.cls = "MoveAction" -> name \in {"type", "unit_id", "to"}
      [] action.cls = "AttackAction" ->
            name \in {"type", "attacker_id", "target_id", "target_type"}
      [] action.cls = "BuildImprovementAction" -> name \in {"type", "worker_id", "improvement"}
      [] action.cls = "FoundCityAction" -> name \in {"type", "worker_id"}
      [] action.cls = "TrainUnitAction" -> name \in {"type", "city_id", "unit_type"}
      [] action.cls = "BuildBuildingAction" -> name \in {"type", "city_id", "building_type"}
      [] OTHER -> FALSE

\* ------------------------------------------------- action resolver, rules.py
\* What an execute_* call does: the state it leaves, and either the
\* ActionResult it returns or raised = TRUE for an exception leaving the call.
ActionResult(success, message, action) ==
    [success |-> success, message |-> message, action |-> action]

Returned(state, success, message, action) ==
    [state |-> state, raised |-> FALSE, result |-> ActionResult(success, message, action)]

\* reading an attribute the action's class does not declare: AttributeError
Raised(state, action) ==
    [state |-> state, raised |-> TRUE,
     result |-> ActionResult(FALSE, "AttributeError", action)]

HasTile(state, loc) == TileIndex(state, loc) # 0

HasUnit(state, unit_id) == unit_id \in DOMAIN state.units

HasCity(state, city_id) == city_id \in DOMAIN state.cities

\* state with field unit_id of the tile at loc (when there is one) set to v
SetTileUnit(state, loc, v) ==
    IF HasTile(state, loc)
    THEN [state EXCEPT !.tiles[TileIndex(state, loc)].unit_id = v]
    ELSE state

DelUnit(state, unit_id) == [state EXCEPT !.units = DictDel(@, unit_id)]

\* state.stockpiles.get(player, ResourceBag())
StockpileOf(state, player) ==
    IF player \in DOMAIN state.stockpiles THEN state.stockpiles[player] ELSE EmptyBag

Max(a, b) == IF a >= b THEN a ELSE b

is_valid_move(state, unit, target) ==
    LET distance == distance_to(unit.loc, target)
    IN IF distance > unit.moves_left
       THEN [valid |-> FALSE, message |-> "not enough moves left"]
       ELSE IF ~HasTile(state, target)
       THEN [valid |-> FALSE, message |-> "target location is invalid"]
       ELSE IF get_tile(state, target).terrain = "water"
       THEN [valid |-> FALSE, message |-> "Cannot move into water"]
       ELSE IF get_tile(state, target).terrain = "mountain"
       THEN [valid |-> FALSE, message |-> "Cannot move into mountains"]
       ELSE IF /\ get_tile(state, target).unit_id # None
               /\ get_tile(state, target).unit_id # unit.id
       THEN [valid |-> FALSE, message |-> "Another unit is on target tile"]
       ELSE [valid |-> TRUE, message |-> "Valid move"]

\* execute_move as it would be if it spent the unit's moves before it
\* validated the move
execute_move_spending_first(state, action) ==
    IF ~HasAttr(action, "unit_id") THEN Raised(state, action)
    ELSE IF ~HasUnit(state, action.id)
    THEN Returned(state, FALSE, "Unit not found", action)
    ELSE LET unit == state.units[action.id]
             check == is_valid_move(state, unit, action.to)
             distance == distance_to(unit.loc, action.to)
             spent == [state EXCEPT !.units[action.id].moves_left = @ - distance]
             occupied == SetTileUnit(SetTileUnit(spent, unit.loc, None), action.to, unit.id)
         IN IF ~check.valid
            THEN Returned(spent, FALSE, check.message, action)
            ELSE Returned([occupied EXCEPT !.units[action.id].loc = action.to],
                          TRUE, "Unit moved", action)

execute_move(state, action) ==
    IF ~HasAttr(action, "unit_id") THEN Raised(state, action)
    ELSE IF ~HasUnit(state, action.id)
    THEN Returned(state, FALSE, "Unit not found", action)
    ELSE LET unit == state.units[action.id]
             check == is_valid_move(state, unit, action.to)
             distance == distance_to(unit.loc, action.to)
             vacated == SetTileUnit(state, unit.loc, None)
             occupied == SetTileUnit(vacated, action.to, unit.id)
             moved == [occupied EXCEPT !.units[action.id] =
                          [@ EXCEPT !.loc = action.to, !.moves_left = @ - distance]]
         IN IF ~check.valid
            THEN Returned(state, FALSE, check.message, action)
            ELSE Returned(moved, TRUE, "Unit moved", action)

\* the removal as it would be if a unit with spent hp stayed on the map
LeaveTheDead(state, unit_id) == state

\* remove a unit whose hp is spent: vacate its tile, delete it from units
RemoveIfDead(state, unit_id) ==
    IF HasUnit(state, unit_id) /\ state.units[unit_id].hp <= 0
    THEN DelUnit(SetTileUnit(state, state.units[unit_id].loc, None), unit_id)
    ELSE state

AttackUnit(state, action) ==
    LET attacker == state.units[action.id]
        target == state.units[action.target_id]
        attacker_strength == UNIT_STATS[attacker.type].attack
        defender_strength == UNIT_STATS[target.type].attack
        damage == Max(1, attacker_strength - (defender_strength \div 2))
        counter_damage == Max(1, defender_strength - (attacker_strength \div 2))
        hit == [state EXCEPT !.units[action.target_id].hp = @ - damage]
        countered ==
            IF /\ hit.units[action.target_id].hp > 0
               /\ can_attack(hit.units[action.target_id], attacker.loc)
            THEN [hit EXCEPT !.units[action.id].hp = @ - counter_damage]
            ELSE hit
        cleared == RemoveIfDead(RemoveIfDead(countered, action.target_id), action.id)
    IN IF ~can_attack(attacker, target.loc)
       THEN Returned(state, FALSE, "cannot attack unit at range", action)
       ELSE IF get_diplomatic_state(state, attacker.owner, target.owner) = "alliance"
       THEN Returned(state, FALSE, "Cannot attack allied unit", action)
       ELSE Returned(cleared, TRUE, "attacks unit", action)

\* a capture as it would be if it changed the owner and left the hp as it fell
CaptureKeepingHp(state, city_id, owner) ==
    [state EXCEPT !.cities[city_id].owner = owner]

\* a city whose hp is spent changes hands and survives with 1 hp
Capture(state, city_id, owner) ==
    [state EXCEPT !.cities[city_id].owner = owner, !.cities[city_id].hp = 1]

AttackCity(state, action) ==
    LET attacker == state.units[action.id]
        target_city == state.cities[action.target_id]
        base == UNIT_STATS[attacker.type].attack
        attacker_strength == IF attacker.type = "soldier" THEN (base * 5) \div 4 ELSE base
        damage == Max(1, attacker_strength)
        hit == [state EXCEPT !.cities[action.target_id].hp = @ - damage]
        countered ==
            IF has_walls(target_city) /\ hit.cities[action.target_id].hp > 0
            THEN [hit EXCEPT !.units[action.id].hp = @ - WallCounterDamage]
            ELSE hit
        cleared == RemoveIfDead(countered, action.id)
        captured ==
            IF cleared.cities[action.target_id].hp <= 0
            THEN Capture(cleared, action.target_id, attacker.owner)
            ELSE cleared
    IN IF ~can_attack(attacker, target_city.loc)
       THEN Returned(state, FALSE, "cannot attack city at range", action)
       ELSE IF get_diplomatic_state(state, attacker.owner, target_city.owner) = "alliance"
       THEN Returned(state, FALSE, "Cannot attack allied city", action)
       ELSE Returned(captured, TRUE, "attacks city", action)

execute_attack(state, action) ==
    IF ~HasAttr(action, "attacker_id") THEN Raised(state, action)
    ELSE IF ~HasUnit(state, action.id)
    THEN Returned(state, FALSE, "Attacker not found", action)
    ELSE IF action.target_type = "unit"
    THEN IF ~HasUnit(state, action.target_id)
         THEN Returned(state, FALSE, "Target unit not found", action)
         ELSE AttackUnit(state, action)
    ELSE IF action.target_type = "city"
    THEN IF ~HasCity(state, action.target_id)
         THEN Returned(state, FALSE, "Target city not found", action)
         ELSE AttackCity(state, action)
    ELSE Returned(state, FALSE, "Invalid target type", action)

execute_found_city(state, action) ==
    IF ~HasAttr(action, "worker_id") THEN Raised(state, action)
    ELSE IF ~HasUnit(state, action.id)
    THEN Returned(state, FALSE, "Worker not found", action)
    ELSE LET worker == state.units[action.id]
             cost == ResourceBag(CityFoodCost, 0, 0, 0)
             player_resources == StockpileOf(state, worker.owner)
             idx == TileIndex(state, worker.loc)
             city == City(state.next_city_id, worker.owner, worker.loc)
             founded ==
                 [state EXCEPT
                     !.cities = DictSet(@, city.id, city),
                     !.next_city_id = @ + 1,
                     !.tiles[idx].city_id = city.id,
                     !.tiles[idx].owner = worker.owner,
                     !.tiles[idx].unit_id = None,
                     !.stockpiles = DictSet(@, worker.owner, BagSub(player_resources, cost)),
                     !.units = DictDel(@, worker.id)]
         IN IF worker.type # "worker"
            THEN Returned(state, FALSE, "Unit is not a worker", action)
            ELSE IF ~can_afford(player_resources, cost)
            THEN Returned(state, FALSE, "cannot afford city", action)
            ELSE IF idx = 0
            THEN Returned(state, FALSE, "Invalid location for city", action)
            ELSE IF state.tiles[idx].city_id # None
            THEN Returned(state, FALSE, "City already exists", action)
            ELSE IF state.tiles[idx].terrain \in {"water", "mountain"}
            THEN Returned(state, FALSE, "Cannot found city on terrain", action)
            ELSE Returned(founded, TRUE, "City founded", action)

execute_train_unit(state, action) ==
    IF ~HasAttr(action, "city_id") THEN Raised(state, action)
    ELSE IF ~HasCity(state, action.id)
    THEN Returned(state, FALSE, "City not found", action)
    ELSE IF ~HasAttr(action, "unit_type") THEN Raised(state, action)
    ELSE IF action.unit_type \notin DOMAIN UNIT_STATS
    THEN Returned(state, FALSE, "Invalid unit type", action)
    ELSE LET city == state.cities[action.id]
             base_cost == UNIT_STATS[action.unit_type].cost
             m == unit_cost_multiplier(city)
             actual_cost == ResourceBag(ScaleInt(base_cost.food, m), ScaleInt(base_cost.wood, m),
                                        ScaleInt(base_cost.ore, m), ScaleInt(base_cost.crystal, m))
             player_resources == StockpileOf(state, city.owner)
             idx == TileIndex(state, city.loc)
             unit == Unit(state.next_unit_id, city.owner, action.unit_type,
                          UNIT_STATS[action.unit_type].hp, UNIT_STATS[action.unit_type].moves,
                          city.loc)
             trained ==
                 [SetTileUnit(state, city.loc, unit.id) EXCEPT
                     !.units = DictSet(@, unit.id, unit),
                     !.next_unit_id = @ + 1,
                     !.stockpiles = DictSet(@, city.owner, BagSub(player_resources, actual_cost))]
         IN IF ~can_afford(player_resources, actual_cost)
            THEN Returned(state, FALSE, "cannot afford unit", action)
            ELSE IF idx # 0 /\ state.tiles[idx].unit_id # None
            THEN Returned(state, FALSE, "City tile is occupied", action)
            ELSE Returned(trained, TRUE, "Unit trained", action)

\* the dispatch on action.type in the loop body of resolve_turn
ExecuteAction(state, action) ==
    CASE action.type = "MOVE" -> execute_move(state, action)
      [] action.type = "ATTACK" -> execute_attack(state, action)
      [] action.type = "FOUND_CITY" -> execute_found_city(state, action)
      [] action.type = "TRAIN_UNIT" -> execute_train_unit(state, action)
      [] action.type = "BUILD_IMPROVEMENT" ->
            Returned(state, FALSE, "Improvement building not implemented yet", action)
      [] action.type = "BUILD_BUILDING" ->
            Returned(state, FALSE, "Building construction not implemented yet", action)
      [] OTHER -> Returned(state, FALSE, "Unknown action type", action)

MinOf(S) == CHOOSE x \in S : \A y \in S : x <= y

RECURSIVE CollectCities(_, _)
CollectCities(state, ids) ==
    IF ids = {} THEN state
    ELSE LET city == state.cities[MinOf(ids)]
             food_production == ScaleInt(1, food_multiplier(city))
             current_resources == StockpileOf(state, city.owner)
         IN CollectCities(
                [state EXCEPT !.stockpiles =
                    DictSet(@, city.owner,
                            [current_resources EXCEPT !.food = @ + food_production])],
                ids \ {MinOf(ids)})

ImprovementYield(tile) ==
    IF tile.improvement = "farm" /\ tile.resource = "food" THEN ResourceBag(2, 0, 0, 0)
    ELSE IF tile.improvement = "mine" /\ tile.resource = "ore" THEN ResourceBag(0, 0, 2, 0)
    ELSE IF tile.improvement = "crystal_extractor" /\ tile.resource = "crystal"
    THEN ResourceBag(0, 0, 0, 1)
    ELSE EmptyBag

RECURSIVE CollectTiles(_, _)
CollectTiles(state, i) ==
    IF i > Len(state.tiles) THEN state
    ELSE LET tile == state.tiles[i]
         IN IF /\ tile.improvement # NoneStr
               /\ tile.owner # NoneStr
               /\ ImprovementYield(tile) # EmptyBag
            THEN CollectTiles(
                     [state EXCEPT !.stockpiles =
                         DictSet(@, tile.owner,
                                 BagAdd(StockpileOf(state, tile.owner), ImprovementYield(tile)))],
                     i + 1)
            ELSE CollectTiles(state, i + 1)

\* a collection that credits one food to every player, city or not
collect_resources_flat(state) ==
    [state EXCEPT !.stockpiles =
        [p \in DOMAIN state.stockpiles |-> [state.stockpiles[p] EXCEPT !.food = @ + 1]]]

collect_resources(state) == CollectTiles(CollectCities(state, DOMAIN state.cities), 1)

\* the start of a turn as it would be if the moves were left as they are
reset_unit_moves_never(state) == state

reset_unit_moves(state) ==
    [state EXCEPT !.units =
        [id \in DOMAIN state.units |->
            [state.units[id] EXCEPT !.moves_left = UNIT_STATS[state.units[id].type].moves]]]

\* player_actions is a dict in insertion order: a sequence of entries
\* [player, actions] with distinct players
DictKeys(pa) == {pa[i].player : i \in 1..Len(pa)}

DictGet(pa, player, default) ==
    IF player \in DictKeys(pa)
    THEN pa[CHOOSE i \in 1..Len(pa) : pa[i].player = player].actions
    ELSE default

\* dict[player] = actions: a present key keeps its place, a new one goes last
DictPut(pa, player, actions) ==
    IF player \in DictKeys(pa)
    THEN [i \in 1..Len(pa) |->
            IF pa[i].player = player THEN [player |-> player, actions |-> actions] ELSE pa[i]]
    ELSE Append(pa, [player |-> player, actions |-> actions])

TurnResult(turn, player_actions, state_hash) ==
    [turn |-> turn, player_actions |-> player_actions, state_hash |-> state_hash]

\* the inner loop of resolve_turn: actions[i..] of one player, in list order
RECURSIVE ResolveBatch(_, _, _, _)
\* what follows the call for actions[i], whose outcome is out
AfterAction(out, actions, i, player_results) ==
    IF out.raised
    THEN [state |-> out.state, raised |-> TRUE, player_results |-> player_results]
    ELSE ResolveBatch(out.state, actions, i + 1, Append(player_results, out.result))

ResolveBatch(state, actions, i, player_results) ==
    IF i > Len(actions)
    THEN [state |-> state, raised |-> FALSE, player_results |-> player_results]
    ELSE AfterAction(ExecuteAction(state, actions[i]), actions, i, player_results)

\* the order the outer loop would take if it went through the submitted dict
SubmissionOrder(state, player_actions) ==
    [i \in 1..Len(player_actions) |-> player_actions[i].player]

\* the players the outer loop of resolve_turn visits, in the order it visits them
ResolutionOrder(state, player_actions) == state.players

\* the outer loop of resolve_turn over order[k..]
RECURSIVE ResolvePlayers(_, _, _, _, _)
\* what follows the inner loop for order[k], whose outcome is batch
AfterBatch(batch, player_actions, order, k, results) ==
    IF batch.raised
    THEN [state |-> batch.state, raised |-> TRUE, results |-> results]
    ELSE ResolvePlayers(batch.state, player_actions, order, k + 1,
                        DictSet(results, order[k], batch.player_results))

ResolvePlayers(state, player_actions, order, k, results) ==
    IF k > Len(order)
    THEN [state |-> state, raised |-> FALSE, results |-> results]
    ELSE AfterBatch(ResolveBatch(state, DictGet(player_actions, order[k], <<>>), 1, <<>>),
                    player_actions, order, k, results)

\* resolve_turn mutates state in place: state is what the object holds when
\* the call returns or raises; result is the TurnResult of a call that returns
TurnOutcome(state, raised, turn, results) ==
    [state |-> state, raised |-> raised,
     result |-> TurnResult(turn, results, hash_state(state))]

\* lines 622-635: after the loop over the players, whose outcome is loop
EndTurn(turn, loop) ==
    IF loop.raised
    THEN TurnOutcome(loop.state, TRUE, turn, loop.results)
    ELSE TurnOutcome([collect_resources(loop.state) EXCEPT !.turn = @ + 1],
                     FALSE, turn, loop.results)

resolve_turn(state, player_actions) ==
    EndTurn(state.turn,
            ResolvePlayers(reset_unit_moves(state), player_actions,
                           ResolutionOrder(state, player_actions), 1, EmptyDict))

\* -------------------------------- create_game, persistent_game_controller.py
\* The search of create_game for one player's start makes up to MaxAttempts
\* draws of (x, y) in the window EdgeMargin .. size-1-EdgeMargin, two draws of
\* the generator per attempt.
\* the generator state n draws after s: RngNext applied n times, in closed
\* form (21^n = 1 + 20n modulo 100)
RngSkip(s, n) == ((1 + 20 * n) * s + 7 * (n + 10 * n * (n - 1))) % 100

\* the (x, y) of attempt number attempts (from 0) of a search begun at s
AttemptCoord(s, attempts) ==
    Coord(RandInt(RngSkip(s, 2 * attempts + 1), EdgeMargin, MapW - 1 - EdgeMargin),
          RandInt(RngSkip(s, 2 * attempts + 2), EdgeMargin, MapH - 1 - EdgeMargin))

\* the attempt draws a plains or forest tile far enough from every unit
AttemptPlaces(state, s, attempts) ==
    LET coord == AttemptCoord(s, attempts)
    IN /\ HasTile(state, coord)
       /\ get_tile(state, coord).terrain \in {"plains", "forest"}
       /\ \A id \in DOMAIN state.units :
              distance_to(coord, state.units[id].loc) >= MinStartDist

\* the while loop: the first attempt that places the worker ends it
PlaceSearch(state, s, player, unit_id) ==
    LET placing == {k \in 0..(MaxAttempts - 1) : AttemptPlaces(state, s, k)}
        worker == Unit(unit_id, player, "worker", StartWorkerHp, StartWorkerMoves,
                       AttemptCoord(s, MinOf(placing)))
    IN IF placing = {}
       THEN [state |-> state, s |-> RngSkip(s, 2 * MaxAttempts), unit_id |-> unit_id]
       ELSE [state |-> [state EXCEPT !.units = DictSet(@, unit_id, worker)],
             s |-> RngSkip(s, 2 * MinOf(placing) + 2), unit_id |-> unit_id + 1]

\* the fallback of create_game: the first plains/forest tile in list order
PlaceFallback(placed, player) ==
    LET state == placed.state
        ok == {i \in 1..Len(state.tiles) : state.tiles[i].terrain \in {"plains", "forest"}}
        worker == Unit(placed.unit_id, player, "worker", StartWorkerHp, StartWorkerMoves,
                       state.tiles[MinOf(ok)].loc)
    IN IF (\E id \in DOMAIN state.units : state.units[id].owner = player) \/ ok = {}
       THEN placed
       ELSE [placed EXCEPT !.state.units = DictSet(@, placed.unit_id, worker),
                           !.unit_id = @ + 1]

RECURSIVE PlaceWorkers(_, _, _)
PlaceWorkers(placed, players, i) ==
    IF i > Len(players) THEN placed.state
    ELSE PlaceWorkers(
             PlaceFallback(PlaceSearch(placed.state, placed.s, players[i], placed.unit_id),
                           players[i]),
             players, i + 1)

\* the GameState create_game builds for (players, seed)
NewGameState(players, seed) ==
    LET state == [GameState(seed, generate_map(MapW, MapH, seed), players) EXCEPT
                     !.stockpiles = [p \in {players[i] : i \in 1..Len(players)} |->
                                        ResourceBag(50, 20, 10, 0)]]
    IN PlaceWorkers([state |-> state, s |-> RngSeed(seed), unit_id |-> 1], players, 1)

\* ----------------------------------------------------------- repository.py
\* model_dump(mode="json") as stored in a JSON column: a value copy in which
\* the int keys of units and cities are strings and building sets are lists
JsonKeys(m) == [k \in {ToString(i) : i \in DOMAIN m} |->
                   m[CHOOSE i \in DOMAIN m : ToString(i) = k]]

RECURSIVE SetToList(_)
SetToList(S) ==
    IF S = {} THEN <<>>
    ELSE LET x == CHOOSE y \in S : TRUE IN <<x>> \o SetToList(S \ {x})

model_dump(state) ==
    [state EXCEPT
        !.units = JsonKeys(state.units),
        !.cities = JsonKeys([id \in DOMAIN state.cities |->
                       [state.cities[id] EXCEPT !.buildings = SetToList(@)]])]

\* the games row repo.create_game inserts, then what update_game_state sets
NoGame ==
    [exists |-> FALSE, players |-> <<>>, status |-> NoneStr, winner |-> NoneStr,
     victory_type |-> NoneStr, turn |-> 0, state |-> EmptyDict]

GameRow(players) ==
    [exists |-> TRUE, players |-> players, status |-> "created", winner |-> NoneStr,
     victory_type |-> NoneStr, turn |-> 0, state |-> EmptyDict]

update_game_state(row, state) ==
    [row EXCEPT !.state = model_dump(state), !.turn = state.turn]

end_game(row, winner, victory_type) ==
    [row EXCEPT !.status = "ended", !.winner = winner, !.victory_type = victory_type]

GameSnapshot(turn_number, state, snapshot_type) ==
    [turn_number |-> turn_number, complete_state |-> model_dump(state),
     state_hash |-> hash_state(state), snapshot_type |-> snapshot_type]

GameTurn(turn_result, player_actions) ==
    [turn_number |-> turn_result.turn, player_actions |-> player_actions,
     action_results |-> turn_result.player_actions, state_hash |-> turn_result.state_hash]

\* GameState.model_validate of a stored dump: the string keys of units and
\* cities become ints again and the building lists become sets
IntKeys(m) == [i \in {n \in 0..99 : ToString(n) \in DOMAIN m} |-> m[ToString(i)]]

ListToSet(l) == {l[i] : i \in DOMAIN l}

model_validate(dump) ==
    [dump EXCEPT
        !.units = IntKeys(dump.units),
        !.cities = [id \in DOMAIN IntKeys(dump.cities) |->
                       [IntKeys(dump.cities)[id] EXCEPT !.buildings = ListToSet(@)]]]

\* a stored value model_validate raises on, and the test for it
Unreadable == [invalid |-> TRUE]

Validates(dump) == "invalid" \notin DOMAIN dump

\* get_latest_snapshot: the rows with the highest turn_number; the query
\* orders by turn_number alone, so any of them may be the one returned
LatestSnapshots(snapshots) ==
    {i \in 1..Len(snapshots) :
        \A j \in 1..Len(snapshots) : snapshots[j].turn_number <= snapshots[i].turn_number}

\* ------------------------------------------ persistent_game_controller.py
\* _check_victory's verdict on a state
Score(state, player) ==
    LET resources == StockpileOf(state, player)
    IN 5 * Cardinality({id \in DOMAIN state.cities : state.cities[id].owner = player})
       + Cardinality({id \in DOMAIN state.units : state.units[id].owner = player})
       + ((resources.food + resources.wood + resources.ore + resources.crystal) \div 50)

\* a max that keeps the last player, in list order, with the top score
TopScorerLast(state) ==
    LET ps == state.players
        best == CHOOSE i \in 1..Len(ps) :
                    /\ \A j \in 1..Len(ps) : Score(state, ps[j]) <= Score(state, ps[i])
                    /\ \A j \in (i + 1)..Len(ps) : Score(state, ps[j]) < Score(state, ps[i])
    IN ps[best]

\* max(scores, key=scores.get): the first player, in list order, with the top score
TopScorer(state) ==
    LET ps == state.players
        best == CHOOSE i \in 1..Len(ps) :
                    /\ \A j \in 1..Len(ps) : Score(state, ps[j]) <= Score(state, ps[i])
                    /\ \A j \in 1..(i - 1) : Score(state, ps[j]) < Score(state, ps[i])
    IN ps[best]

Verdict(state) ==
    LET players_with_cities == {state.cities[id].owner : id \in DOMAIN state.cities}
    IN IF Cardinality(players_with_cities) <= 1 /\ DOMAIN state.cities # {}
       THEN [ended |-> TRUE, winner |-> CHOOSE p \in players_with_cities : TRUE,
             victory_type |-> "domination"]
       ELSE IF state.turn >= state.max_turns
       THEN [ended |-> TRUE, winner |-> TopScorer(state), victory_type |-> "score"]
       ELSE [ended |-> FALSE, winner |-> NoneStr, victory_type |-> "none"]

\* the players that own a city
CityOwners(state) == {state.cities[id].owner : id \in DOMAIN state.cities}

\* at least one city, and all cities with one owner
Domination(state) == DOMAIN state.cities # {} /\ Cardinality(CityOwners(state)) = 1

VARIABLES
    objs,               \* the GameState objects of the process; a reference is an index
    game_cache,         \* _game_cache[game_id]: a reference, None when absent
    pending_actions,    \* _pending_actions[game_id]: dict player -> batch, in insertion order
    db_game,            \* the games row
    db_turns,           \* game_turns rows, in insertion order
    db_player_actions,  \* player_actions rows: <<turn_number, player_id, action>>
    db_snapshots,       \* game_snapshots rows, in insertion order
    handlers,           \* per request handler: the await it is suspended at, its locals
    audit,              \* history kept for the properties, never read by an action
    world,              \* SpecRules: the GameState the resolver is called on
    last                \* SpecRules: the most recent call and what it returned

ctrl_vars == <<objs, game_cache, pending_actions, db_game, db_turns,
               db_player_actions, db_snapshots, handlers, audit>>

rule_vars == <<db_player_actions, world, last>>

vars == <<objs, game_cache, pending_actions, db_game, db_turns,
          db_player_actions, db_snapshots, handlers, audit, world, last>>

Handlers == 1..NumHandlers

\* player lists create_game is called with: every list of MinPlayers..MaxListLen
\* names whose first entry is "A" (the lists starting with "B" mirror them)
RECURSIVE ListsOfLen(_)
ListsOfLen(n) ==
    IF n = 0 THEN {<<>>}
    ELSE {Append(l, p) : l \in ListsOfLen(n - 1), p \in PlayerNames}

PlayerLists ==
    {l \in UNION {ListsOfLen(n) : n \in MinPlayers..MaxListLen} : l[1] = "A"}

\* calls of submit_player_actions, <<player_id, actions>>: each player may
\* pass or found a city with its worker; "B" may send a MoveAction that
\* carries the tag of another class
Submissions ==
    {<<"A", <<>>>>,
     <<"A", <<FoundCityAction(1)>>>>,
     <<"B", <<>>>>,
     <<"B", <<FoundCityAction(2)>>>>,
     <<"B", <<Retag(MoveAction(1, Coord(0, 0)), "ATTACK")>>>>}

IdleHandler ==
    [pc |-> "idle", player_id |-> NoneStr, actions |-> <<>>, state |-> None,
     turn_actions |-> <<>>, observed_turn |-> 0, result_turn |-> 0, error |-> NoneStr]

NoResolve ==
    [n |-> 0, handler |-> None, turn |-> 0, used |-> <<>>, submitters |-> {},
     latest |-> EmptyDict, raised |-> FALSE, results |-> EmptyDict]

NoClear == [n |-> 0, observed_turn |-> 0, turn |-> 0]

InitAudit ==
    [submits |-> 0, observers |-> 0, resolves_in_round |-> 0, since |-> {},
     latest |-> EmptyDict, resolve |-> NoResolve, clear |-> NoClear,
     restarts |-> 0, faults |-> 0, reads |-> 0,
     dominant |-> [h \in 1..NumHandlers |-> {}]]

NoCall == [op |-> NoneStr, n |-> 0]

CtrlInit ==
    /\ objs = <<>>
    /\ game_cache = None
    /\ pending_actions = <<>>
    /\ db_game = NoGame
    /\ db_turns = <<>>
    /\ db_player_actions = {}
    /\ db_snapshots = <<>>
    /\ handlers = [h \in Handlers |-> IdleHandler]
    /\ audit = InitAudit

Init ==
    /\ CtrlInit
    /\ world = EmptyDict
    /\ last = NoCall

\* what a call outside submit_player_actions answered: the exception it
\* raised (NoneStr for none) and the state it returned
Reply(op, n, error, state) == [op |-> op, n |-> n, error |-> error, state |-> state]

\* the outcome of a lookup: the objects and the cache entry afterwards, and
\* the reference returned (None for None)
Loaded(new_objs, cache, result) ==
    [objs |-> new_objs, game_cache |-> cache, result |-> result]

\* get_game_state (lines 142-163): the cached object; on a miss the games
\* row, validated into a new object that is cached; None when there is no
\* row or model_validate raises
get_game_state ==
    IF game_cache # None THEN Loaded(objs, game_cache, game_cache)
    ELSE IF ~db_game.exists THEN Loaded(objs, None, None)
    ELSE IF ~Validates(db_game.state) THEN Loaded(objs, None, None)
    ELSE Loaded(Append(objs, model_validate(db_game.state)), Len(objs) + 1, Len(objs) + 1)

\* load_game_from_database (lines 165-177): the same without the cache test
load_game_from_database ==
    IF ~db_game.exists THEN Loaded(objs, game_cache, None)
    ELSE IF ~Validates(db_game.state) THEN Loaded(objs, game_cache, None)
    ELSE Loaded(Append(objs, model_validate(db_game.state)), Len(objs) + 1, Len(objs) + 1)

\* restore_game_state (lines 396-404) when get_latest_snapshot returns row i
\* (0 for no row): the snapshot first, the games row only without one
restore_game_state(i) ==
    IF i # 0 /\ Validates(db_snapshots[i].complete_state)
    THEN Loaded(Append(objs, model_validate(db_snapshots[i].complete_state)),
                Len(objs) + 1, Len(objs) + 1)
    ELSE load_game_from_database

\* the state a reference names, EmptyDict for None
Deref(loaded) ==
    IF loaded.result = None THEN EmptyDict ELSE loaded.objs[loaded.result]

\* what a call of create_game answered, with the player list it was given
CreateReply(players, error) ==
    [op |-> "create_game", n |-> 0, players |-> players, error |-> error,
     state |-> EmptyDict]

\* a create_game that empties the pending submissions before it raises
RejectedResetting(players, error) ==
    /\ last' = CreateReply(players, error)
    /\ pending_actions' = <<>>
    /\ UNCHANGED <<objs, game_cache, db_game, db_snapshots>>

\* create_game raising ValueError at line 44 or line 49
Rejected(players, error) ==
    /\ last' = CreateReply(players, error)
    /\ UNCHANGED <<objs, game_cache, pending_actions, db_game, db_snapshots>>

\* create_game(game_id, players, seed) for the one game id of the model
CreateGame(players, seed) ==
    /\ IF Len(players) < MinPlayers \/ Len(players) > MaxPlayers
       THEN Rejected(players, "Games require 2-8 players")
       ELSE IF db_game.exists
       THEN Rejected(players, "Game already exists")
       ELSE LET state == NewGameState(players, seed)
            IN /\ objs' = Append(objs, state)
               /\ game_cache' = Len(objs) + 1
               /\ db_game' = update_game_state(GameRow(players), state)
               /\ db_snapshots' = Append(db_snapshots, GameSnapshot(0, state, "initial"))
               /\ pending_actions' = <<>>
               /\ last' = CreateReply(players, NoneStr)
    /\ UNCHANGED <<db_turns, db_player_actions, handlers, audit, world>>

Suspend(h, pc) == [handlers EXCEPT ![h].pc = pc]

Return(h, error) == [handlers EXCEPT ![h] = [IdleHandler EXCEPT !.error = error]]

TotalActions(pa) ==
    LET RECURSIVE Sum(_)
        Sum(i) == IF i > Len(pa) THEN 0 ELSE Len(pa[i].actions) + Sum(i + 1)
    IN Sum(1)

\* a membership test that lets every player in
NotInGameNever(state, player_id) == FALSE

\* player_id not in state.players (line 193)
NotInGame(state, player_id) ==
    \A i \in 1..Len(state.players) : state.players[i] # player_id

\* submit_player_actions up to its first await (lines 183-204): the lookups,
\* the two checks, and the rows handed to save_player_actions
SubmitBegin(h, player_id, actions) ==
    /\ handlers[h].pc = "idle"
    \* the request takes the first free slot: which slot serves it is no
    \* part of the program's state
    /\ \A g \in Handlers : g < h => handlers[g].pc # "idle"
    /\ audit.submits < MaxSubmits
    /\ get_game_state.result # None => Deref(get_game_state).turn < MaxTurn
    /\ audit' = [audit EXCEPT !.submits = @ + 1]
    /\ objs' = get_game_state.objs
    /\ game_cache' = get_game_state.game_cache
    /\ IF get_game_state.result = None
       THEN /\ handlers' = Return(h, "Game not found")
            /\ UNCHANGED db_player_actions
       ELSE IF NotInGame(Deref(get_game_state), player_id)
       THEN /\ handlers' = Return(h, "Player not in game")
            /\ UNCHANGED db_player_actions
       ELSE /\ handlers' = [handlers EXCEPT ![h] =
                              [IdleHandler EXCEPT !.pc = "save_player_actions",
                                                  !.player_id = player_id,
                                                  !.actions = actions,
                                                  !.state = get_game_state.result]]
            /\ db_player_actions' =
                   db_player_actions \cup
                       {<<Deref(get_game_state).turn, player_id, actions[i]>> :
                           i \in 1..Len(actions)}
    /\ UNCHANGED <<pending_actions, db_game, db_turns, db_snapshots, world, last>>

\* the barrier test of submit_player_actions (line 217)
AllSubmitted(pending, state) == Len(pending) = Len(state.players)

\* lines 207-221, and _process_turn up to its first await (lines 272-281)
SubmitStore(h) ==
    /\ handlers[h].pc = "save_player_actions"
    /\ LET me == handlers[h]
           pending == DictPut(pending_actions, me.player_id, me.actions)
           full == AllSubmitted(pending, objs[me.state])
       IN /\ pending_actions' = pending
          /\ audit' = [audit EXCEPT
                          !.since = @ \cup {me.player_id},
                          !.latest = DictSet(@, me.player_id, me.actions),
                          !.observers = IF full THEN @ + 1 ELSE @]
          /\ handlers' =
                 IF full
                 THEN [handlers EXCEPT ![h].pc = "broadcast_turn_start",
                                       ![h].state = game_cache,
                                       ![h].observed_turn = objs[game_cache].turn]
                 ELSE Return(h, NoneStr)
    /\ UNCHANGED <<objs, game_cache, db_game, db_turns, db_snapshots,
                   db_player_actions, world, last>>

\* line 303 to the await of line 308: resolve_turn on the cached object with
\* the copied batches, then the game_turns row handed to save_turn_result
\* out is what resolve_turn did to the object ref names; saved tells whether
\* save_turn_result then stores its row or raises
Resolved(h, actions, ref, out, saved) ==
    /\ objs' = [objs EXCEPT ![ref] = out.state]
    /\ audit' = [audit EXCEPT
                    !.since = IF out.raised THEN @ ELSE {},
                    !.resolves_in_round = IF out.raised THEN @ ELSE @ + 1,
                    !.resolve = [n |-> @.n + 1, handler |-> h, turn |-> objs[ref].turn,
                                 used |-> actions, submitters |-> audit.since,
                                 latest |-> audit.latest, raised |-> out.raised,
                                 results |-> out.result.player_actions],
                    !.faults = IF saved THEN @ ELSE @ + 1,
                    !.dominant[h] = IF ~out.raised /\ Domination(out.state)
                                    THEN CityOwners(out.state) ELSE {}]
    /\ IF out.raised
       THEN /\ saved
            /\ handlers' = Return(h, "AttributeError")
            /\ UNCHANGED db_turns
       ELSE IF ~saved
       THEN /\ handlers' = Return(h, "save_turn_result failed")
            /\ UNCHANGED db_turns
       ELSE /\ handlers' = [handlers EXCEPT ![h].pc = "save_turn_result",
                                            ![h].turn_actions = actions,
                                            ![h].result_turn = out.result.turn]
            /\ db_turns' = Append(db_turns, GameTurn(out.result, actions))

Resolve(h, actions) ==
    Resolved(h, actions, handlers[h].state,
             resolve_turn(objs[handlers[h].state], actions), TRUE)

\* line 283: the copy of the pending batches; with no action to broadcast
\* there is no await before resolve_turn
ProcessCopy(h) ==
    /\ handlers[h].pc = "broadcast_turn_start"
    /\ IF TotalActions(pending_actions) = 0
       THEN Resolve(h, pending_actions)
       ELSE /\ handlers' = [handlers EXCEPT ![h].pc = "broadcast_player_action",
                                            ![h].turn_actions = pending_actions]
            /\ UNCHANGED <<objs, audit, db_turns>>
    /\ UNCHANGED <<game_cache, pending_actions, db_game, db_snapshots,
                   db_player_actions, world, last>>

ProcessResolve(h) ==
    /\ handlers[h].pc = "broadcast_player_action"
    /\ Resolve(h, handlers[h].turn_actions)
    /\ UNCHANGED <<game_cache, pending_actions, db_game, db_snapshots,
                   db_player_actions, world, last>>

\* line 312: the games row takes the state as the object holds it now
ProcessUpdateState(h) ==
    /\ handlers[h].pc = "save_turn_result"
    /\ db_game' = update_game_state(db_game, objs[handlers[h].state])
    /\ handlers' = Suspend(h, "update_game_state")
    /\ UNCHANGED <<objs, game_cache, pending_actions, db_turns,
                   db_snapshots, audit, db_player_actions, world, last>>

\* lines 315-319
ProcessCache(h) ==
    /\ handlers[h].pc = "update_game_state"
    /\ game_cache' = handlers[h].state
    /\ handlers' = Suspend(h, "broadcast_turn_end")
    /\ UNCHANGED <<objs, pending_actions, db_game, db_turns,
                   db_snapshots, audit, db_player_actions, world, last>>

\* _check_victory up to its first await (lines 340-386)
CheckVictory(h) ==
    LET verdict == Verdict(objs[game_cache])
    IN IF verdict.ended
       THEN /\ db_game' = end_game(db_game, verdict.winner, verdict.victory_type)
            /\ handlers' = Suspend(h, "end_game")
       ELSE /\ handlers' = Return(h, NoneStr)
            /\ UNCHANGED db_game

\* lines 322-335: clear the pending batches, then the periodic snapshot or,
\* with none due, straight on to _check_victory
ProcessClear(h) ==
    /\ handlers[h].pc = "broadcast_turn_end"
    /\ pending_actions' = <<>>
    /\ audit' = [audit EXCEPT
                    !.observers = 0,
                    !.resolves_in_round = 0,
                    !.latest = EmptyDict,
                    !.clear = [n |-> @.n + 1,
                               observed_turn |-> handlers[h].observed_turn,
                               turn |-> objs[handlers[h].state].turn]]
    /\ IF objs[handlers[h].state].turn % SnapshotEvery = 0
       THEN /\ db_snapshots' =
                   Append(db_snapshots,
                          GameSnapshot(objs[handlers[h].state].turn,
                                       objs[handlers[h].state], "periodic"))
            /\ handlers' = Suspend(h, "create_game_snapshot")
            /\ UNCHANGED db_game
       ELSE /\ CheckVictory(h)
            /\ UNCHANGED db_snapshots
    /\ UNCHANGED <<objs, game_cache, db_turns, db_player_actions, world, last>>

ProcessAfterSnapshot(h) ==
    /\ handlers[h].pc = "create_game_snapshot"
    /\ CheckVictory(h)
    /\ UNCHANGED <<objs, game_cache, pending_actions, db_turns,
                   db_snapshots, audit, db_player_actions, world, last>>

\* lines 388-394: the final snapshot after end_game
VictorySnapshot(h) ==
    /\ handlers[h].pc = "end_game"
    /\ db_snapshots' =
           Append(db_snapshots,
                  GameSnapshot(objs[game_cache].turn, objs[game_cache], "final"))
    /\ handlers' = Suspend(h, "final_snapshot")
    /\ UNCHANGED <<objs, game_cache, pending_actions, db_game, db_turns,
                   audit, db_player_actions, world, last>>

Finish(h) ==
    /\ handlers[h].pc = "final_snapshot"
    /\ handlers' = Return(h, NoneStr)
    /\ UNCHANGED <<objs, game_cache, pending_actions, db_game, db_turns,
                   db_snapshots, audit, db_player_actions, world, last>>

\* ------------------------------------------------ storage faults, restarts
\* lines 303-308 when save_turn_result raises: resolve_turn has run on the
\* cached object, no row is stored, the request ends with the exception
SaveTurnResultFails(h) ==
    /\ audit.faults < MaxFaults
    /\ \/ handlers[h].pc = "broadcast_player_action"
       \/ handlers[h].pc = "broadcast_turn_start" /\ TotalActions(pending_actions) = 0
    /\ Resolved(h, IF handlers[h].pc = "broadcast_turn_start"
                   THEN pending_actions ELSE handlers[h].turn_actions,
                handlers[h].state,
                resolve_turn(objs[handlers[h].state],
                             IF handlers[h].pc = "broadcast_turn_start"
                             THEN pending_actions ELSE handlers[h].turn_actions),
                FALSE)
    /\ UNCHANGED <<game_cache, pending_actions, db_game, db_snapshots,
                   db_player_actions, world, last>>

\* line 312 when update_game_state raises: the games row keeps the old state
UpdateGameStateFails(h) ==
    /\ audit.faults < MaxFaults
    /\ handlers[h].pc = "save_turn_result"
    /\ handlers' = Return(h, "update_game_state failed")
    /\ audit' = [audit EXCEPT !.faults = @ + 1]
    /\ UNCHANGED <<objs, game_cache, pending_actions, db_game, db_turns,
                   db_snapshots, db_player_actions, world, last>>

\* the state column of the games row comes to hold a value model_validate
\* raises on (the case lines 153-163 catch)
DamageRecord ==
    /\ audit.faults < MaxFaults
    /\ db_game.exists
    /\ Validates(db_game.state)
    /\ db_game' = [db_game EXCEPT !.state = Unreadable]
    /\ audit' = [audit EXCEPT !.faults = @ + 1]
    /\ UNCHANGED <<objs, game_cache, pending_actions, db_turns, db_snapshots,
                   db_player_actions, handlers, world, last>>

\* the process ends and a new one starts: a new controller (lines 29-37)
\* with an empty cache and no pending batches; the requests in flight are gone
Restart ==
    /\ audit.restarts < MaxRestarts
    /\ db_game.exists
    /\ objs' = <<>>
    /\ game_cache' = None
    /\ pending_actions' = <<>>
    /\ handlers' = [h \in Handlers |-> IdleHandler]
    /\ audit' = [audit EXCEPT !.restarts = @ + 1]
    /\ UNCHANGED <<db_game, db_turns, db_snapshots, db_player_actions, world, last>>

\* GET /state: controller.get_game_state
GetState ==
    /\ audit.reads < MaxReads
    /\ objs' = get_game_state.objs
    /\ game_cache' = get_game_state.game_cache
    /\ last' = Reply("get_game_state", audit.reads + 1, NoneStr, Deref(get_game_state))
    /\ audit' = [audit EXCEPT !.reads = @ + 1]
    /\ UNCHANGED <<pending_actions, db_game, db_turns, db_snapshots,
                   db_player_actions, handlers, world>>

\* POST /games/{game_id}/restore: controller.restore_game_state, with i the
\* row get_latest_snapshot returns
Restore(i) ==
    /\ audit.reads < MaxReads
    /\ IF db_snapshots = <<>> THEN i = 0 ELSE i \in LatestSnapshots(db_snapshots)
    /\ objs' = restore_game_state(i).objs
    /\ game_cache' = restore_game_state(i).game_cache
    /\ last' = Reply("restore_game_state", audit.reads + 1, NoneStr,
                     Deref(restore_game_state(i)))
    /\ audit' = [audit EXCEPT !.reads = @ + 1]
    /\ UNCHANGED <<pending_actions, db_game, db_turns, db_snapshots,
                   db_player_actions, handlers, world>>

\* the part of a request that runs after its first await
Continue(h) ==
    \/ SubmitStore(h)
    \/ ProcessCopy(h)
    \/ ProcessResolve(h)
    \/ ProcessUpdateState(h)
    \/ ProcessCache(h)
    \/ ProcessClear(h)
    \/ ProcessAfterSnapshot(h)
    \/ VictorySnapshot(h)
    \/ Finish(h)

Next ==
    \/ \E players \in PlayerLists, seed \in Seeds :
           ~db_game.exists /\ CreateGame(players, seed)
    \/ \E h \in Handlers, call \in Submissions : SubmitBegin(h, call[1], call[2])
    \/ \E h \in Handlers : Continue(h)

Spec == Init /\ [][Next]_vars

\* ------------------------------------------- the controller across failures
\* One client at a time (every request is served by the first slot), with
\* the storage faults, the restart and the read and restore calls; create_game
\* is also called with lists it must reject and for the id that exists; the
\* map is that of the first seed.
CreateLists ==
    PlayerLists \cup {<<"A">>, [i \in 1..(MaxPlayers + 1) |-> "A"]}

\* the batches the one client sends: each player may pass, "A" may found a city
SerialSubmissions == {call \in Submissions : call[2] = <<>> \/ call[1] = "A"}

NextRecovery ==
    \/ \E players \in CreateLists : CreateGame(players, MinOf(Seeds))
    \/ \E call \in SerialSubmissions :
           audit.submits < MaxSerialSubmits /\ SubmitBegin(1, call[1], call[2])
    \/ Continue(1)
    \/ SaveTurnResultFails(1)
    \/ UpdateGameStateFails(1)
    \/ DamageRecord
    \/ Restart
    \/ GetState
    \/ \E i \in 0..Len(db_snapshots) : Restore(i)

SpecRecovery == Init /\ [][NextRecovery]_vars

\* ------------------------------------------------------- the turn barrier
\* a request that is inside _process_turn
InProcessTurn(h) ==
    handlers[h].pc \in {"broadcast_turn_start", "broadcast_player_action", "save_turn_result",
                        "update_game_state", "broadcast_turn_end"}

Quiescent == \A h \in Handlers : handlers[h].pc = "idle"

GameExists == game_cache # None

CurrentState == objs[game_cache]

\* C1: the check that every player has submitted and the resolution it
\* triggers are atomic: at most one request is inside _process_turn at a
\* time, and the batches of one round are resolved at most once, so the
\* turn advances by one and never by two.
C1_AtomicCheckAndTrigger ==
    /\ Cardinality({h \in Handlers : InProcessTurn(h)}) <= 1
    /\ audit.resolves_in_round <= 1

\* C2: a turn is resolved (turn advanced, TurnResult produced) only when
\* every one of the N listed players has submitted a batch since the
\* resolution before it.
C2_NoResolutionBelowN ==
    (audit.resolve.n > 0 /\ ~audit.resolve.raised)
        => Cardinality(audit.resolve.submitters) >= Len(CurrentState.players)

\* C3: the request whose submission completed the set resolves the turn
\* exactly once: when it empties the pending batches the turn is one more
\* than the turn it found.
C3_CompletingSubmissionAdvancesByOne ==
    audit.clear.n > 0 => audit.clear.turn = audit.clear.observed_turn + 1

\* every player of the list has a pending batch
EveryPlayerPending ==
    \A i \in 1..Len(CurrentState.players) :
        CurrentState.players[i] \in DictKeys(pending_actions)

\* C4: in every game create_game accepts, once every listed player has
\* submitted the turn is resolved: the controller never comes to rest with
\* a batch pending for every listed player.
C4_FullBarrierIsResolved ==
    ~(GameExists /\ Quiescent /\ EveryPlayerPending)

\* C5: a re-submission replaces the player's pending batch, and the batch
\* resolved for a player is the one that player stored last.
C5_LatestBatchResolved ==
    /\ \A i, j \in 1..Len(pending_actions) :
           pending_actions[i].player = pending_actions[j].player => i = j
    /\ (audit.resolve.n > 0 /\ ~audit.resolve.raised) =>
           \A i \in 1..Len(audit.resolve.used) :
               LET entry == audit.resolve.used[i]
               IN /\ entry.player \in DOMAIN audit.resolve.latest
                  /\ audit.resolve.latest[entry.player] = entry.actions

\* ------------------------------------------------ tiles, units and cities
\* every unit and city stands on a tile that names it, and every tile that
\* names a unit or a city names one that stands on it
TilesMatchEntities(state) ==
    /\ \A id \in DOMAIN state.units :
           /\ HasTile(state, state.units[id].loc)
           /\ get_tile(state, state.units[id].loc).unit_id = id
    /\ \A id \in DOMAIN state.cities :
           /\ HasTile(state, state.cities[id].loc)
           /\ get_tile(state, state.cities[id].loc).city_id = id
    /\ \A i \in 1..Len(state.tiles) :
           /\ state.tiles[i].unit_id # None =>
                  /\ HasUnit(state, state.tiles[i].unit_id)
                  /\ state.units[state.tiles[i].unit_id].loc = state.tiles[i].loc
           /\ state.tiles[i].city_id # None =>
                  /\ HasCity(state, state.tiles[i].city_id)
                  /\ state.cities[state.tiles[i].city_id].loc = state.tiles[i].loc

\* C6: from create_game onward the tiles and the units and cities agree in
\* both directions.
C6_TilesMatchEntities == GameExists => TilesMatchEntities(CurrentState)

\* ------------------------------------------------- the rules on their own
\* A game as create_game leaves it, then calls of the action executors and
\* of resolve_turn on it; last records the latest call.
MapCoords == {Coord(x, y) : x \in 0..(MapW - 1), y \in 0..(MapH - 1)}

UnitIds == 1..MaxUnitId

CityIds == 1..MaxCityId

\* the actions the executors are called with: every class with ids and
\* coordinates on and off the map, and actions whose tag is not their class's
RuleActions ==
    {MoveAction(u, c) : u \in UnitIds, c \in MapCoords \cup {Coord(MapW, 0)}}
    \cup {AttackAction(u, v, k) : u \in UnitIds, v \in CityIds, k \in {"unit", "city", "tile"}}
    \cup {FoundCityAction(u) : u \in UnitIds}
    \cup {TrainUnitAction(c, k) : c \in CityIds, k \in {"scout", "worker"}}
    \cup {BuildImprovementAction(1), BuildBuildingAction(1),
          Retag(MoveAction(1, Coord(0, 0)), "DANCE"),
          Retag(MoveAction(1, Coord(0, 0)), "ATTACK"),
          Retag(FoundCityAction(1), "MOVE")}

\* the batches of one player in a call of resolve_turn
RuleBatches ==
    [A |-> {<<>>,
            <<MoveAction(1, Coord(0, 0))>>,
            <<MoveAction(1, Coord(MapW, 0)), FoundCityAction(1)>>,
            <<MoveAction(1, Coord(0, 0)), MoveAction(1, Coord(1, 0)),
              MoveAction(1, Coord(0, 0))>>},
     B |-> {<<>>,
            <<MoveAction(2, Coord(0, 0))>>,
            <<FoundCityAction(2), TrainUnitAction(1, "scout")>>,
            <<Retag(FoundCityAction(2), "MOVE"), FoundCityAction(2)>>}]

Entry(player, actions) == [player |-> player, actions |-> actions]

\* the player_actions dicts resolve_turn is called with: any of the two
\* players may be missing, and both insertion orders occur
TurnBatches ==
    {<<>>}
    \cup {<<Entry("A", a)>> : a \in RuleBatches.A}
    \cup {<<Entry("B", b)>> : b \in RuleBatches.B}
    \cup {<<Entry("A", a), Entry("B", b)>> : a \in RuleBatches.A, b \in RuleBatches.B}
    \cup {<<Entry("B", b), Entry("A", a)>> : a \in RuleBatches.A, b \in RuleBatches.B}

RulesInit ==
    /\ CtrlInit
    /\ world \in {NewGameState(players, seed) : players \in PlayerLists, seed \in Seeds}
    /\ last = NoCall

Executed(action, out) ==
    /\ world' = out.state
    /\ last' = [op |-> "execute", n |-> last.n + 1, before |-> world, action |-> action,
                raised |-> out.raised, result |-> out.result]

\* one pass of the loop body of resolve_turn (lines 589-618) on the game
ExecuteOne(action) ==
    /\ last.n < MaxCalls
    /\ Executed(action, ExecuteAction(world, action))
    /\ UNCHANGED ctrl_vars

TurnResolved(player_actions, out) ==
    /\ world' = out.state
    /\ last' = [op |-> "resolve_turn", n |-> last.n + 1, before |-> world,
                player_actions |-> player_actions, raised |-> out.raised,
                result |-> out.result]

ResolveWhole(player_actions) ==
    /\ last.n < MaxCalls
    /\ world.turn < MaxTurn
    /\ TurnResolved(player_actions, resolve_turn(world, player_actions))
    /\ UNCHANGED ctrl_vars

RulesNext ==
    \/ \E action \in RuleActions : ExecuteOne(action)
    \/ \E player_actions \in TurnBatches : ResolveWhole(player_actions)

SpecRules == RulesInit /\ [][RulesNext]_vars

LastExecuted == last.op = "execute" /\ ~last.raised

LastResolved == last.op = "resolve_turn"

\* C7: a successful TRAIN_UNIT gives the new unit an id no unit of the game
\* holds, so the game has exactly one unit more than before.
C7_TrainedUnitIsNew ==
    (LastExecuted /\ last.action.type = "TRAIN_UNIT" /\ last.result.success)
        => /\ ~HasUnit(last.before, last.before.next_unit_id)
           /\ Cardinality(DOMAIN world.units) = Cardinality(DOMAIN last.before.units) + 1

\* C8: an action that returns success = false leaves the GameState exactly
\* as it was before the action.
C8_FailureLeavesState ==
    (LastExecuted /\ ~last.result.success) => world = last.before

\* a move that passed the unit lookup and failed validation, and a
\* TRAIN_UNIT refused in a city that exists
C8_FailureReached ==
    /\ LastExecuted
    /\ ~last.result.success
    /\ \/ /\ last.action.type = "MOVE"
          /\ HasUnit(last.before, last.action.id)
          /\ distance_to(last.before.units[last.action.id].loc, last.action.to) > 0
       \/ /\ last.action.type = "TRAIN_UNIT"
          /\ HasCity(last.before, last.action.id)

\* C9: resolve_turn returns a TurnResult that holds, for every player of
\* the list, one ActionResult per submitted action in the order submitted
\* (none for a player who submitted nothing), whatever actions fail.
C9_OneResultPerAction ==
    LastResolved =>
        /\ ~last.raised
        /\ \A i \in 1..Len(last.before.players) :
               LET player == last.before.players[i]
                   submitted == DictGet(last.player_actions, player, <<>>)
               IN /\ player \in DOMAIN last.result.player_actions
                  /\ Len(last.result.player_actions[player]) = Len(submitted)
                  /\ \A j \in 1..Len(submitted) :
                         last.result.player_actions[player][j].action = submitted[j]

\* the same dict with its entries inserted in every other order
Reorderings(player_actions) ==
    {[i \in 1..Len(player_actions) |-> player_actions[f[i]]] :
        f \in Permutations(1..Len(player_actions))}

\* C10: the state, the TurnResult and the state hash resolve_turn leaves
\* are the same for every order in which the same batches were submitted.
C10_SubmissionOrderIrrelevant ==
    LastResolved =>
        \A player_actions \in Reorderings(last.player_actions) :
            resolve_turn(last.before, player_actions)
                = [state |-> world, raised |-> last.raised, result |-> last.result]

\* "B" submitted before "A", both move onto the same tile: the move of
\* "A", first in the player list, is the one that succeeds
C10_ContestedTileReached ==
    /\ LastResolved
    /\ ~last.raised
    /\ last.before.players = <<"A", "B">>
    /\ last.player_actions =
           <<Entry("B", <<MoveAction(2, Coord(0, 0))>>),
             Entry("A", <<MoveAction(1, Coord(0, 0))>>)>>
    /\ last.result.player_actions["A"][1].success
    /\ ~last.result.player_actions["B"][1].success

\* ------------------------------------------------- persistence and recovery
WriteFailures == {"save_turn_result failed", "update_game_state failed"}

\* a step in which a durable write of _process_turn raises
WriteFails ==
    \E h \in Handlers : /\ handlers[h].pc # "idle"
                        /\ handlers'[h].pc = "idle"
                        /\ handlers'[h].error \in WriteFailures

\* C11: a durable write (the turn-result row or the state update) that fails
\* during turn processing leaves the cache no further than the durable
\* state: the cached turn counter equals the turn of the games row.
C11_FailedWriteKeepsCache ==
    [][WriteFails => (game_cache' # None /\ objs'[game_cache'].turn = db_game'.turn)]_vars

\* a call answered with a state, and not with None
Found(reply) == DOMAIN reply.state # {}

\* a step that is one call of get_game_state through GET /state
GetStateStep == last'.op = "get_game_state" /\ audit'.reads = audit.reads + 1

\* C12: get_state returns the cached state when there is one; on a miss the
\* current state of the durable record, which it caches; and when that load
\* fails or yields nothing, the most recent snapshot (highest turn number).
C12_RecoveryOrder ==
    [][GetStateStep =>
          IF game_cache # None
          THEN Found(last') /\ last'.state = objs[game_cache]
          ELSE IF db_game.exists /\ Validates(db_game.state)
          THEN /\ Found(last')
               /\ last'.state = model_validate(db_game.state)
               /\ game_cache' # None
               /\ objs'[game_cache'] = last'.state
          ELSE IF db_snapshots # <<>>
          THEN /\ Found(last')
               /\ \E i \in LatestSnapshots(db_snapshots) :
                      last'.state = model_validate(db_snapshots[i].complete_state)
          ELSE ~Found(last')]_vars

\* a step that is one call of restore_game_state through POST restore
RestoreStep == last'.op = "restore_game_state" /\ audit'.reads = audit.reads + 1

\* C13: the snapshot is only a fallback: whenever the durable record loads,
\* a restore leaves the cache holding a state whose turn is not lower than
\* the durable record's turn, so no resolved turn is lost.
C13_SnapshotOnlyFallback ==
    [][(RestoreStep /\ db_game.exists /\ Validates(db_game.state)) =>
          (game_cache' # None /\ objs'[game_cache'].turn >= db_game.turn)]_vars

\* ------------------------------------------------ what a processed turn leaves
\* a step in which request h comes to the end of _process_turn
ProcessDone(h) ==
    /\ handlers[h].pc \in {"broadcast_turn_end", "create_game_snapshot", "final_snapshot"}
    /\ handlers'[h].pc = "idle"
    /\ handlers'[h].error = NoneStr
    /\ audit'.restarts = audit.restarts

\* the game_turns rows recorded under turn number n
TurnRows(turns, n) == {i \in 1..Len(turns) : turns[i].turn_number = n}

\* C14: when a turn has been processed without error, the state of the
\* durable game record equals the cached state, and the turn history holds
\* exactly one TurnResult for each turn number 0..turn-1, the one of this
\* turn under its pre-increment number with the raw batches that were used.
C14_DurableMatchesCache ==
    [][\A h \in Handlers : ProcessDone(h) =>
          /\ db_game'.state = model_dump(objs'[game_cache'])
          /\ \A n \in 0..(objs'[game_cache'].turn - 1) :
                 Cardinality(TurnRows(db_turns', n)) = 1
          /\ \A i \in 1..Len(db_turns') : db_turns'[i].turn_number < objs'[game_cache'].turn
          /\ \E i \in TurnRows(db_turns', handlers[h].result_turn) :
                 db_turns'[i].player_actions = handlers[h].turn_actions]_vars

\* -------------------------------------------------------- snapshot schedule
\* the snapshot rows of one type
SnapshotsOfType(snapshots, type) ==
    {i \in 1..Len(snapshots) : snapshots[i].snapshot_type = type}

\* the row a step appends to game_snapshots is of this type
Writes(type) ==
    /\ Len(db_snapshots') = Len(db_snapshots) + 1
    /\ db_snapshots'[Len(db_snapshots')].snapshot_type = type

\* the rows as they stand: the first is the initial one of turn 0, every row
\* holds the state of its turn number, and none is ahead of the current turn
SnapshotsInOrder(snapshots, state) ==
    /\ snapshots # <<>>
    /\ SnapshotsOfType(snapshots, "initial") = {1}
    /\ snapshots[1].turn_number = 0
    /\ \A i \in 1..Len(snapshots) :
           /\ snapshots[i].complete_state.turn = snapshots[i].turn_number
           /\ snapshots[i].turn_number <= state.turn

\* the request that resolved a turn writes a periodic snapshot exactly when
\* the turn number its resolution produced is a multiple of SnapshotEvery
PeriodicOnSchedule(h) ==
    /\ (handlers[h].pc = "broadcast_turn_end" /\ Writes("periodic"))
           => (handlers[h].result_turn + 1) % SnapshotEvery = 0
    /\ (ProcessDone(h) /\ (handlers[h].result_turn + 1) % SnapshotEvery = 0)
           => \E i \in SnapshotsOfType(db_snapshots', "periodic") :
                  db_snapshots'[i].turn_number = handlers[h].result_turn + 1

\* C15: an initial snapshot of turn 0 is written at creation; after a
\* resolution a periodic snapshot is written exactly when the new turn number
\* is a multiple of the period; a final snapshot is written when the game
\* ends; each snapshot holds the state as of its turn number, and the latest
\* snapshot's turn never exceeds the current turn.
C15_SnapshotSchedule ==
    [][/\ game_cache' # None => SnapshotsInOrder(db_snapshots', objs'[game_cache'])
       /\ \A h \in Handlers : PeriodicOnSchedule(h)
       /\ \A h \in Handlers :
              (ProcessDone(h) /\ db_game'.status = "ended")
                  => SnapshotsOfType(db_snapshots', "final") # {}]_vars

\* ------------------------------------------------------------------ victory
\* the durable mark of an ended game
Ended(row, winner, victory_type) ==
    row.status = "ended" /\ row.winner = winner /\ row.victory_type = victory_type

\* C16: after a resolved turn whose state has at least one city and all
\* cities owned by one player, the game is durably marked ended by
\* domination with that player as winner and a final snapshot is written;
\* with no cities domination does not fire; the record and the state stay
\* retrievable. audit.dominant[h] holds the owner in the state the
\* resolution of request h produced.
C16_DominationEndsGame ==
    [][\A h \in Handlers : ProcessDone(h) =>
          /\ audit.dominant[h] # {} =>
                 /\ \A p \in audit.dominant[h] : Ended(db_game', p, "domination")
                 /\ \E i \in SnapshotsOfType(db_snapshots', "final") :
                        Domination(model_validate(db_snapshots'[i].complete_state))
          /\ DOMAIN objs'[game_cache'].cities = {} => db_game'.victory_type # "domination"
          /\ db_game'.exists
          /\ get_game_state'.result # None]_vars

\* ------------------------------------------------- games played to the end
\* the turns one player submits in a long game
ScoreBatches ==
    [A |-> {<<>>, <<FoundCityAction(1)>>},
     B |-> {<<>>,
            <<FoundCityAction(2), TrainUnitAction(1, "scout")>>,
            <<FoundCityAction(2), TrainUnitAction(2, "scout")>>}]

\* one call of resolve_turn (rules.py 565-635) in a game that runs on for
\* LongTurns turns
PlayTurn(player_actions) ==
    /\ world.turn < LongTurns
    /\ TurnResolved(player_actions, resolve_turn(world, player_actions))
    /\ UNCHANGED ctrl_vars

\* the verdict of _check_victory (lines 344-382) on the game as it stands
JudgeWorld ==
    /\ last' = [op |-> "_check_victory", n |-> last.n, verdict |-> Verdict(world)]
    /\ UNCHANGED world
    /\ UNCHANGED ctrl_vars

ScoreNext ==
    \/ \E a \in ScoreBatches.A, b \in ScoreBatches.B :
           PlayTurn(<<Entry("A", a), Entry("B", b)>>)
    \/ JudgeWorld

\* a new game of two players, as create_game builds it
ScoreInit ==
    /\ CtrlInit
    /\ world = NewGameState(<<"A", "B">>, MinOf(Seeds))
    /\ last = NoCall

SpecScore == ScoreInit /\ [][ScoreNext]_vars

\* the score of the turn-limit rule: 5 per city, 1 per unit, 1 per 50 resources
ScoreOf(state, p) ==
    5 * Cardinality({id \in DOMAIN state.cities : state.cities[id].owner = p})
    + Cardinality({id \in DOMAIN state.units : state.units[id].owner = p})
    + ((state.stockpiles[p].food + state.stockpiles[p].wood
        + state.stockpiles[p].ore + state.stockpiles[p].crystal) \div 50)

\* the places of the player list whose player has the highest score
TopPlaces(state) ==
    {i \in 1..Len(state.players) :
        \A j \in 1..Len(state.players) :
            ScoreOf(state, state.players[j]) <= ScoreOf(state, state.players[i])}

Judged == last.op = "_check_victory"

CreateStep == last' # last /\ last'.op = "create_game"

\* C18: create_game with fewer than 2 or more than 8 players, or for a game
\* id that already exists, raises an error, and only then; the rejected
\* call leaves the cache, the pending submissions, the games row, the turn
\* rows, the action rows and the snapshots as they were, so that an
\* existing game keeps its state and turn.
C18_RejectedCreateNoPartialState ==
    [][CreateStep =>
          /\ (last'.error # NoneStr) <=>
                 (Len(last'.players) < 2 \/ Len(last'.players) > 8 \/ db_game.exists)
          /\ (last'.error # NoneStr) =>
                 /\ UNCHANGED <<objs, game_cache, pending_actions>>
                 /\ UNCHANGED <<db_game, db_turns, db_player_actions, db_snapshots>>
                 /\ get_game_state'.result = get_game_state.result
                 /\ Deref(get_game_state') = Deref(get_game_state)]_vars

\* a create_game rejected for the id of a game that has resolved a turn and
\* holds a submission
C18_RejectedOverRunningGame ==
    /\ last.op = "create_game"
    /\ last.error = "Game already exists"
    /\ db_game.turn >= 1
    /\ game_cache # None
    /\ pending_actions # <<>>

\* a call of submit_player_actions taken by slot h
SubmitCall(h) ==
    /\ audit'.submits = audit.submits + 1
    /\ handlers[h].pc = "idle"
    /\ \A g \in Handlers : g < h => handlers[g].pc # "idle"

SubmitErrors == {"Game not found", "Player not in game"}

\* C19: submit_player_actions for a game that does not exist, or for a
\* player that is not in the game's player list, raises an error; a call
\* that raises one of the two errors adds nothing to the pending
\* submissions, writes no row, and leaves the game's state and turn as
\* they were.
C19_RejectedSubmitNoEffect ==
    [][\A h \in Handlers : SubmitCall(h) =>
          /\ ~db_game.exists =>
                 handlers'[h].pc = "idle" /\ handlers'[h].error = "Game not found"
          /\ handlers'[h].pc = "save_player_actions" =>
                 \E i \in 1..Len(db_game.players) :
                     db_game.players[i] = handlers'[h].player_id
          /\ handlers'[h].pc = "idle" =>
                 /\ handlers'[h].error \in SubmitErrors
                 /\ UNCHANGED <<pending_actions, db_player_actions>>
                 /\ UNCHANGED <<db_game, db_turns, db_snapshots>>
                 /\ Deref(get_game_state') = Deref(get_game_state)]_vars

\* a player outside the player list was turned away while a submission of
\* the game was pending
C19_StrangerRejected ==
    \E h \in Handlers :
        /\ handlers[h].pc = "idle"
        /\ handlers[h].error = "Player not in game"
        /\ pending_actions # <<>>

\* ------------------------------------------------------- starting workers
\* the ids of the workers the random search of create_game placed (the
\* others were placed by the fallback)
RECURSIVE SearchedUnits(_, _, _)
SearchedUnits(placed, players, i) ==
    IF i > Len(players) THEN {}
    ELSE (IF PlaceSearch(placed.state, placed.s, players[i], placed.unit_id).unit_id
                # placed.unit_id
          THEN {placed.unit_id} ELSE {})
         \cup SearchedUnits(
                  PlaceFallback(PlaceSearch(placed.state, placed.s, players[i],
                                            placed.unit_id), players[i]),
                  players, i + 1)

\* the search of create_game as it starts for the game of a new state
SearchStart(state) ==
    [state |-> [state EXCEPT !.units = EmptyDict], s |-> RngSeed(state.rng_state),
     unit_id |-> 1]

UnitsOf(state, player) == {id \in DOMAIN state.units : state.units[id].owner = player}

OneWorkerEach(state) ==
    \A i \in 1..Len(state.players) :
        /\ Cardinality(UnitsOf(state, state.players[i])) = 1
        /\ \A id \in UnitsOf(state, state.players[i]) :
               /\ state.units[id].type = "worker"
               /\ HasTile(state, state.units[id].loc)
               /\ get_tile(state, state.units[id].loc).terrain \in {"plains", "forest"}

SearchedApart(state) ==
    \A k \in SearchedUnits(SearchStart(state), state.players, 1) :
        \A j \in DOMAIN state.units :
            j < k => distance_to(state.units[k].loc, state.units[j].loc) >= MinStartDist

\* C20: in the state create_game builds every listed player owns exactly
\* one unit, a worker on a plains or forest tile, and every worker placed by
\* the random search is at Manhattan distance >= MinStartDist (5 in the
\* code) from every worker placed before it.
C20_OneWorkerEachApart ==
    [][(CreateStep /\ last'.error = NoneStr) =>
          /\ OneWorkerEach(objs'[game_cache'])
          /\ SearchedApart(objs'[game_cache'])]_vars

\* ------------------------------------------------------------ a new game
StartingStockpile == ResourceBag(50, 20, 10, 0)

\* every listed player holds exactly the starting stockpile
AllAtStart(state) ==
    \A i \in 1..Len(state.players) :
        /\ state.players[i] \in DOMAIN state.stockpiles
        /\ state.stockpiles[state.players[i]] = StartingStockpile

\* the call handed resolve_turn an empty batch for every listed player
AllPass(state, player_actions) ==
    /\ DictKeys(player_actions) = {state.players[i] : i \in 1..Len(state.players)}
    /\ \A i \in 1..Len(player_actions) : player_actions[i].actions = <<>>

\* the first call on a new game was resolve_turn with everybody passing
FirstTurnPassed ==
    /\ last.op = "resolve_turn"
    /\ last.n = 1
    /\ AllPass(last.before, last.player_actions)

\* C21: a game create_game built is at turn 0 and every player holds food 50,
\* wood 20, ore 10, crystal 0; resolving a first turn in which every player
\* submits an empty batch sets turn to 1 and leaves every stockpile as it
\* was, no city existing.
C21_StartAndFirstPass ==
    /\ last.n = 0 => world.turn = 0 /\ AllAtStart(world)
    /\ FirstTurnPassed =>
           /\ ~last.raised
           /\ world.turn = 1
           /\ AllAtStart(world)
           /\ world.stockpiles = last.before.stockpiles
           /\ DOMAIN world.cities = {}

\* a first turn of two distinct players, both passing, was resolved
C21_FirstPassReached ==
    /\ FirstTurnPassed
    /\ Len(last.player_actions) = 2
    /\ world.turn = 1

\* ------------------------------------------------------------------ MOVE
\* the latest call was execute_move on a MoveAction, and it returned
MoveExecuted ==
    /\ last.op = "execute"
    /\ ~last.raised
    /\ last.action.cls = "MoveAction"
    /\ last.action.type = "MOVE"

\* the units other than unit_id that stand at loc
OthersAt(state, loc, unit_id) ==
    {v \in DOMAIN state.units : v # unit_id /\ state.units[v].loc = loc}

\* the conditions of a valid move
MoveAllowed(state, action) ==
    /\ HasUnit(state, action.id)
    /\ distance_to(state.units[action.id].loc, action.to) <= state.units[action.id].moves_left
    /\ HasTile(state, action.to)
    /\ get_tile(state, action.to).terrain \notin {"water", "mountain"}
    /\ OthersAt(state, action.to, action.id) = {}

\* what a successful move leaves behind
MoveDone(before, action, after) ==
    /\ HasUnit(after, action.id)
    /\ after.units[action.id].loc = action.to
    /\ after.units[action.id].moves_left =
           before.units[action.id].moves_left
           - distance_to(before.units[action.id].loc, action.to)
    /\ get_tile(after, action.to).unit_id = action.id
    /\ (before.units[action.id].loc # action.to
        /\ HasTile(before, before.units[action.id].loc)) =>
           get_tile(after, before.units[action.id].loc).unit_id = None

\* C22: MOVE succeeds if and only if the unit exists, the Manhattan
\* distance to the target is at most its moves_left, the target tile
\* exists, its terrain is neither water nor mountain, and no other unit
\* is on it; on success the old tile is vacated, the target tile
\* references the unit, unit.loc is the target and moves_left is reduced
\* by exactly the distance.
C22_MoveIffValid ==
    MoveExecuted =>
        /\ last.result.success <=> MoveAllowed(last.before, last.action)
        /\ last.result.success => MoveDone(last.before, last.action, world)

\* ------------------------------------------------------- a game under way
\* GameState values later in a game, as inputs of the rules: two units of any
\* type, whole or wounded, next to each other or apart, and a city that "B"
\* founded two turns ago, with or without buildings; tiles reference what
\* stands on them. Unit 1 of "A" stands at (0,0) or (1,0), unit 2 at (0,1),
\* the city at (0,0); a worker is also given on the water tile (1,1) and on
\* the mountain tile (2,0), where execute_found_city has a check of its own.
Trained(id, owner, type, hp, loc) ==
    Unit(id, owner, type, hp, UNIT_STATS[type].moves, loc)

\* the tiles of the map with the references of the units and of the city
FieldTiles(tiles, units, city) ==
    [i \in 1..Len(tiles) |->
        [tiles[i] EXCEPT
            !.unit_id = IF \E id \in DOMAIN units : units[id].loc = tiles[i].loc
                        THEN CHOOSE id \in DOMAIN units : units[id].loc = tiles[i].loc
                        ELSE None,
            !.city_id = IF city.loc = tiles[i].loc THEN city.id ELSE None,
            !.owner = IF city.loc = tiles[i].loc THEN city.owner ELSE NoneStr]]

Field(t1, l1, t2, o2, hp2, buildings, city_hp, allied) ==
    LET units == <<Trained(1, "A", t1, UNIT_STATS[t1].hp, l1),
                   Trained(2, o2, t2, hp2, Coord(0, 1))>>
        city == [City(1, "B", Coord(0, 0)) EXCEPT !.hp = city_hp, !.buildings = buildings]
        base == GameState(MinOf(Seeds), generate_map(MapW, MapH, MinOf(Seeds)),
                          <<"A", "B">>)
    IN [base EXCEPT
           !.turn = 2,
           !.units = units,
           !.cities = <<city>>,
           !.tiles = FieldTiles(base.tiles, units, city),
           !.stockpiles = [p \in {"A", "B"} |->
                              IF p = "A" THEN ResourceBag(50, 20, 10, 0)
                              ELSE ResourceBag(50 - CityFoodCost + 2, 20, 10, 0)],
           !.diplomacy = IF allied THEN [k \in {<<"A", "B">>} |-> "alliance"]
                         ELSE EmptyDict,
           !.next_unit_id = 3,
           !.next_city_id = 2]

FieldStates ==
    {Field(t1, l1, t2, o2, hp2, buildings, city_hp, allied) :
        t1 \in UnitTypes, l1 \in {Coord(0, 0), Coord(1, 0)}, t2 \in UnitTypes,
        o2 \in {"A", "B"}, hp2 \in {1, 2},
        buildings \in {{}, {"walls"}, {"granary", "barracks"}},
        city_hp \in {CityDefaultHp, 2}, allied \in BOOLEAN}
    \cup
    {Field("worker", l1, t2, "B", 2, {}, CityDefaultHp, FALSE) :
        l1 \in {Coord(1, 1), Coord(2, 0)}, t2 \in UnitTypes}

\* the actions sent on a battlefield: attacks by and on units 1..3 (3 does
\* not exist) and cities 1..2 (2 does not exist), moves, foundings, and
\* training of every type and of an unknown type
FieldActions ==
    {AttackAction(u, v, "unit") : u \in 1..3, v \in 1..3}
    \cup {AttackAction(u, c, "city") : u \in 1..3, c \in 1..2}
    \cup {AttackAction(1, 1, "tile")}
    \cup {MoveAction(u, Coord(1, 0)) : u \in 1..2}
    \cup {FoundCityAction(u) : u \in 1..3}
    \cup {TrainUnitAction(1, k) : k \in UnitTypes \cup {"dragon"}}
    \cup {TrainUnitAction(2, "scout")}

FieldInit ==
    /\ CtrlInit
    /\ world \in FieldStates
    /\ last = NoCall

\* one pass of the loop body of resolve_turn (lines 589-618) on the battlefield
Fight(action) ==
    /\ last.n < MaxFieldCalls
    /\ Executed(action, ExecuteAction(world, action))
    /\ UNCHANGED ctrl_vars

\* the player_actions of a turn on the battlefield: "A" passes or attacks the
\* city with one unit or with both, "B" passes or attacks unit 1 with unit 2
FieldBatches ==
    {<<Entry("A", a), Entry("B", b)>> :
        a \in {<<>>, <<AttackAction(1, 1, "city")>>,
                <<AttackAction(2, 1, "city"), AttackAction(1, 1, "city")>>},
        b \in {<<>>, <<AttackAction(2, 1, "unit")>>}}

\* a call of resolve_turn on the battlefield
FieldTurn(player_actions) ==
    /\ last.n < MaxFieldCalls
    /\ TurnResolved(player_actions, resolve_turn(world, player_actions))
    /\ UNCHANGED ctrl_vars

FieldNext ==
    \/ \E action \in FieldActions : Fight(action)
    \/ \E player_actions \in FieldBatches : FieldTurn(player_actions)

SpecField == FieldInit /\ [][FieldNext]_vars

\* ------------------------------------------------------------------ ATTACK
AttackExecuted ==
    /\ last.op = "execute"
    /\ ~last.raised
    /\ last.action.cls = "AttackAction"
    /\ last.action.type = "ATTACK"

TargetExists(state, action) ==
    \/ action.target_type = "unit" /\ action.target_id \in DOMAIN state.units
    \/ action.target_type = "city" /\ action.target_id \in DOMAIN state.cities

TargetOwner(state, action) ==
    IF action.target_type = "unit" THEN state.units[action.target_id].owner
    ELSE state.cities[action.target_id].owner

TargetLoc(state, action) ==
    IF action.target_type = "unit" THEN state.units[action.target_id].loc
    ELSE state.cities[action.target_id].loc

Allied(state, p, q) ==
    \/ p = q
    \/ \E k \in {<<p, q>>, <<q, p>>} :
           k \in DOMAIN state.diplomacy /\ state.diplomacy[k] = "alliance"

BothExist(state, action) ==
    action.id \in DOMAIN state.units /\ TargetExists(state, action)

InReach(state, action) ==
    LET attacker == state.units[action.id]
    IN /\ UNIT_STATS[attacker.type].attack > 0
       /\ Abs(attacker.loc.x - TargetLoc(state, action).x)
            + Abs(attacker.loc.y - TargetLoc(state, action).y)
            <= UNIT_STATS[attacker.type].attack_range

AlliedAttack(state, action) ==
    /\ BothExist(state, action)
    /\ Allied(state, state.units[action.id].owner, TargetOwner(state, action))

\* C23: an ATTACK succeeds only if attacker and target exist, the attacker's
\* type has attack > 0, the target is within attack_range (Manhattan), and the
\* two owners are not allied (a player is allied with themself); an attack
\* between allied owners fails and changes no hp of any unit or city.
C23_AttackOnlyIfAllowed ==
    AttackExecuted =>
        /\ last.result.success =>
              /\ BothExist(last.before, last.action)
              /\ InReach(last.before, last.action)
              /\ ~AlliedAttack(last.before, last.action)
        /\ AlliedAttack(last.before, last.action) =>
              /\ ~last.result.success
              /\ world.units = last.before.units
              /\ world.cities = last.before.cities

\* an armed unit in range of a unit or city of an ally was refused
C23_AlliedAttackRefused ==
    /\ AttackExecuted
    /\ AlliedAttack(last.before, last.action)
    /\ InReach(last.before, last.action)
    /\ last.action.id # last.action.target_id
    /\ ~last.result.success
    /\ last.result.message \in {"Cannot attack allied unit", "Cannot attack allied city"}

UnitAttackDone ==
    /\ AttackExecuted
    /\ last.action.target_type = "unit"
    /\ last.result.success

\* hp of a unit after an action, 0 when the unit is no longer in the units map
HpAfter(state, unit_id) ==
    IF unit_id \in DOMAIN state.units THEN state.units[unit_id].hp ELSE 0

Blow(striker, struck) ==
    Max(1, UNIT_STATS[striker.type].attack - (UNIT_STATS[struck.type].attack \div 2))

\* the damage rule of a successful unit attack, defender and attacker
DamageRule(before, action, after) ==
    LET attacker == before.units[action.id]
        defender == before.units[action.target_id]
        survives == defender.hp - Blow(attacker, defender) > 0
        counters ==
            /\ survives
            /\ Abs(attacker.loc.x - defender.loc.x) + Abs(attacker.loc.y - defender.loc.y)
                   <= UNIT_STATS[defender.type].attack_range
    IN /\ HpAfter(after, action.target_id) = Max(0, defender.hp - Blow(attacker, defender))
       /\ HpAfter(after, action.id) =
              IF counters THEN Max(0, attacker.hp - Blow(defender, attacker))
              ELSE attacker.hp

\* a soldier with 4 hp attacks a scout with 2 hp on an adjacent tile
SoldierOnScout(before, action) ==
    LET attacker == before.units[action.id]
        defender == before.units[action.target_id]
    IN /\ attacker.type = "soldier" /\ attacker.hp = 4
       /\ defender.type = "scout" /\ defender.hp = 2
       /\ Abs(attacker.loc.x - defender.loc.x) + Abs(attacker.loc.y - defender.loc.y) = 1

UnitDamageRule ==
    UnitAttackDone => DamageRule(last.before, last.action, world)

\* C24: a successful unit attack takes max(1, attacker.attack -
\* floor(defender.attack / 2)) hp from the defender; a surviving defender with
\* the attacker in its range takes max(1, defender.attack -
\* floor(attacker.attack / 2)) hp from the attacker, otherwise the attacker's
\* hp is unchanged; a soldier with 4 hp attacking an adjacent scout with 2 hp
\* leaves the scout at 1 hp and the soldier at 3 hp.
C24_UnitDamage ==
    UnitAttackDone =>
        /\ DamageRule(last.before, last.action, world)
        /\ SoldierOnScout(last.before, last.action) =>
              /\ HpAfter(world, last.action.target_id) = 1
              /\ HpAfter(world, last.action.id) = 3

CityAttackDone ==
    /\ AttackExecuted
    /\ last.action.target_type = "city"
    /\ last.result.success

\* what a unit of this type takes from a city: soldiers deal 1.25 times
\* their attack, rounded down
CityBlow(type) ==
    Max(1, IF type = "soldier" THEN (UNIT_STATS[type].attack * 5) \div 4
           ELSE UNIT_STATS[type].attack)

CaptureRule(before, action, after) ==
    LET attacker == before.units[action.id]
        city == before.cities[action.target_id]
        left == city.hp - CityBlow(attacker.type)
    IN /\ left <= 0 =>
             /\ after.cities[action.target_id].owner = attacker.owner
             /\ after.cities[action.target_id].hp = 1
       /\ left > 0 =>
             /\ after.cities[action.target_id].owner = city.owner
             /\ after.cities[action.target_id].hp = left
             /\ "walls" \in city.buildings =>
                    HpAfter(after, action.id) = Max(0, attacker.hp - 2)

\* C25: cities are never deleted: an attack that brings a city's hp to 0 or
\* below leaves the city in the cities map with the attacker's owner and hp 1;
\* over any action the number of cities does not decrease and every city has
\* hp >= 1 afterwards; a walled city that survives an attack takes exactly 2
\* hp from the attacker.
C25_CitiesSurvive ==
    last.op = "execute" =>
        /\ DOMAIN last.before.cities \subseteq DOMAIN world.cities
        /\ Cardinality(DOMAIN world.cities) >= Cardinality(DOMAIN last.before.cities)
        /\ \A c \in DOMAIN world.cities : world.cities[c].hp >= 1
        /\ CityAttackDone => CaptureRule(last.before, last.action, world)

\* a city was captured: its hp was spent, it changed hands and has 1 hp
C25_CityCaptured ==
    /\ CityAttackDone
    /\ last.before.cities[last.action.target_id].hp
          <= CityBlow(last.before.units[last.action.id].type)
    /\ last.before.cities[last.action.target_id].owner = "B"
    /\ world.cities[last.action.target_id].owner = "A"
    /\ world.cities[last.action.target_id].hp = 1

\* the unit ids an action names, as actor or as unit target
UnitsNamed(action) ==
    IF action.cls = "AttackAction" /\ action.target_type = "unit"
    THEN {action.id, action.target_id}
    ELSE IF action.cls \in {"MoveAction", "AttackAction", "FoundCityAction"}
    THEN {action.id}
    ELSE {}

Referenced(state, unit_id) ==
    \E i \in 1..Len(state.tiles) : state.tiles[i].unit_id = unit_id

\* C26: a unit whose hp drops to 0 or below in an attack is removed from the
\* units map and no tile references it when the action returns; so between
\* actions every unit has hp > 0, and an action that names a removed unit, as
\* mover, attacker, founder or target, fails and changes nothing.
C26_DeadUnitsRemoved ==
    /\ \A u \in DOMAIN world.units : world.units[u].hp > 0
    /\ last.op = "execute" =>
          /\ \A u \in DOMAIN last.before.units \ DOMAIN world.units :
                 ~Referenced(world, u)
          /\ (~last.raised /\ UnitsNamed(last.action) \ DOMAIN last.before.units # {}) =>
                 /\ ~last.result.success
                 /\ world = last.before

\* unit 2 died in an attack and the next action named it
C26_DeadUnitNamed ==
    /\ last.op = "execute"
    /\ last.n = 2
    /\ 1 \in DOMAIN last.before.units
    /\ 2 \notin DOMAIN last.before.units
    /\ last.before.next_city_id = 2
    /\ ~Referenced(last.before, 2)
    /\ 2 \in UnitsNamed(last.action)
    /\ ~last.result.success

\* -------------------------------------------------------------- FOUND_CITY
FoundExecuted ==
    /\ last.op = "execute"
    /\ ~last.raised
    /\ last.action.cls = "FoundCityAction"
    /\ last.action.type = "FOUND_CITY"

FoodOf(state, player) ==
    IF player \in DOMAIN state.stockpiles THEN state.stockpiles[player].food ELSE 0

CitiesAt(state, loc) == {c \in DOMAIN state.cities : state.cities[c].loc = loc}

FoundAllowed(state, action) ==
    /\ action.id \in DOMAIN state.units
    /\ state.units[action.id].type = "worker"
    /\ FoodOf(state, state.units[action.id].owner) >= 30
    /\ \E i \in 1..Len(state.tiles) :
           /\ state.tiles[i].loc = state.units[action.id].loc
           /\ state.tiles[i].terrain \notin {"water", "mountain"}
    /\ CitiesAt(state, state.units[action.id].loc) = {}

FoundDone(before, action, after) ==
    LET worker == before.units[action.id]
        new == DOMAIN after.cities \ DOMAIN before.cities
    IN /\ Cardinality(new) = 1
       /\ \A c \in new :
              /\ after.cities[c].owner = worker.owner
              /\ after.cities[c].loc = worker.loc
              /\ \E i \in 1..Len(after.tiles) :
                     after.tiles[i].loc = worker.loc /\ after.tiles[i].city_id = c
       /\ \A c \in DOMAIN before.cities : after.cities[c] = before.cities[c]
       /\ after.stockpiles =
              [before.stockpiles EXCEPT ![worker.owner].food = @ - 30]
       /\ action.id \notin DOMAIN after.units

\* C27: FOUND_CITY succeeds if and only if the acting unit exists and is a
\* worker, its owner has at least 30 food, and the worker's tile exists, has
\* no city and is neither water nor mountain; on success exactly one new city
\* of the worker's owner exists at the worker's loc, the tile references it,
\* the owner's food is 30 less and the worker is removed; on failure the
\* stockpiles are unchanged.
C27_FoundCityIffValid ==
    FoundExecuted =>
        /\ last.result.success <=> FoundAllowed(last.before, last.action)
        /\ last.result.success => FoundDone(last.before, last.action, world)
        /\ ~last.result.success => world.stockpiles = last.before.stockpiles

\* a worker founded a second city
C27_CityFounded ==
    /\ FoundExecuted
    /\ last.result.success
    /\ Cardinality(DOMAIN last.before.cities) = 1
    /\ Cardinality(DOMAIN world.cities) = 2

\* -------------------------------------------------------------- TRAIN_UNIT
TrainExecuted ==
    /\ last.op = "execute"
    /\ ~last.raised
    /\ last.action.cls = "TrainUnitAction"
    /\ last.action.type = "TRAIN_UNIT"

\* the cost of a type in a city: each resource times 0.75 with a barracks,
\* rounded down
ScaledCost(city, type) ==
    LET base == UNIT_STATS[type].cost
        Part(v) == IF "barracks" \in city.buildings THEN (3 * v) \div 4 ELSE v
    IN ResourceBag(Part(base.food), Part(base.wood), Part(base.ore), Part(base.crystal))

Covers(bag, cost) ==
    \A r \in {"food", "wood", "ore", "crystal"} : bag[r] >= cost[r]

UnitsAt(state, loc) == {u \in DOMAIN state.units : state.units[u].loc = loc}

\* the four conditions, the third read from tile.unit_id of the city's tile
TrainAllowedByTile(state, action) ==
    /\ action.id \in DOMAIN state.cities
    /\ action.unit_type \in UnitTypes
    /\ \A i \in 1..Len(state.tiles) :
           state.tiles[i].loc = state.cities[action.id].loc => state.tiles[i].unit_id = None
    /\ Covers(state.stockpiles[state.cities[action.id].owner],
              ScaledCost(state.cities[action.id], action.unit_type))

\* the four conditions, the third read from the units that stand on the tile
TrainAllowed(state, action) ==
    /\ action.id \in DOMAIN state.cities
    /\ action.unit_type \in UnitTypes
    /\ UnitsAt(state, state.cities[action.id].loc) = {}
    /\ Covers(state.stockpiles[state.cities[action.id].owner],
              ScaledCost(state.cities[action.id], action.unit_type))

TrainDone(before, action, after) ==
    LET city == before.cities[action.id]
        cost == ScaledCost(city, action.unit_type)
    IN /\ \E u \in UnitsAt(after, city.loc) :
              /\ after.units[u].type = action.unit_type
              /\ after.units[u].owner = city.owner
              /\ after.units[u].hp = UNIT_STATS[action.unit_type].hp
              /\ after.units[u].moves_left = UNIT_STATS[action.unit_type].moves
       /\ after.stockpiles =
              [before.stockpiles EXCEPT
                  ![city.owner] = ResourceBag(@.food - cost.food, @.wood - cost.wood,
                                              @.ore - cost.ore, @.crystal - cost.crystal)]

TrainIffValidByTile ==
    TrainExecuted =>
        /\ last.result.success <=> TrainAllowedByTile(last.before, last.action)
        /\ last.result.success => TrainDone(last.before, last.action, world)

\* C28: TRAIN_UNIT succeeds if and only if the city exists, the unit type is
\* known, no unit stands on the city's tile, and the stockpile of the city's
\* owner covers the base cost of the type with each resource multiplied by
\* the city's cost multiplier (0.75 with a barracks, else 1) and rounded down;
\* on success a unit of that type with full hp and moves, owned by the city's
\* owner, stands on the city tile and exactly the scaled cost is deducted.
C28_TrainIffValid ==
    TrainExecuted =>
        /\ last.result.success <=> TrainAllowed(last.before, last.action)
        /\ last.result.success => TrainDone(last.before, last.action, world)

\* ------------------------------------------------------ end-of-turn yield
TurnDone == last.op = "resolve_turn" /\ ~last.raised

\* the actions of all batches of a player_actions dict
ActionsIn(player_actions) ==
    UNION {{player_actions[i].actions[j] : j \in 1..Len(player_actions[i].actions)} :
              i \in 1..Len(player_actions)}

\* no action of the turn pays anything: none founds and none trains
NothingPaid(player_actions) ==
    \A a \in ActionsIn(player_actions) : a.type \notin {"FOUND_CITY", "TRAIN_UNIT"}

\* floor(1 * m), m = 1.5 with a granary and 1.0 without
CityYield(city) == IF "granary" \in city.buildings THEN 3 \div 2 ELSE 1

RECURSIVE SumYield(_, _, _)
SumYield(state, ids, player) ==
    IF ids = {} THEN 0
    ELSE LET c == CHOOSE c \in ids : TRUE
         IN (IF state.cities[c].owner = player THEN CityYield(state.cities[c]) ELSE 0)
                + SumYield(state, ids \ {c}, player)

\* C29: a resolved turn credits floor(1 * m) food for every city, m = 1.5
\* with a granary and 1.0 otherwise, once, to the owner the city has after
\* all actions of the turn; a turn whose actions pay nothing changes the
\* stockpiles by exactly that.
C29_CityYield ==
    (TurnDone /\ NothingPaid(last.player_actions)) =>
        \A p \in DOMAIN world.stockpiles :
            world.stockpiles[p] =
                [last.before.stockpiles[p] EXCEPT
                    !.food = @ + SumYield(world, DOMAIN world.cities, p)]

\* a city with a granary was captured during the turn and its yield of 1
\* went to the new owner
C29_YieldToNewOwner ==
    /\ TurnDone
    /\ NothingPaid(last.player_actions)
    /\ last.before.cities[1].owner = "B"
    /\ "granary" \in last.before.cities[1].buildings
    /\ world.cities[1].owner = "A"
    /\ world.stockpiles["A"].food = last.before.stockpiles["A"].food + 1
    /\ world.stockpiles["B"].food = last.before.stockpiles["B"].food

\* -------------------------------------------------------------- stockpiles
\* C30: in every state reached from create_game by executed actions and
\* resolved turns, each of food, wood, ore and crystal of every player is at
\* least 0.
C30_StockpilesNonNegative ==
    \A p \in DOMAIN world.stockpiles :
        \A r \in {"food", "wood", "ore", "crystal"} : world.stockpiles[p][r] >= 0

\* a player paid for a city and for a unit and has nothing left to pay with
C30_FoodSpent ==
    /\ last.op \in {"execute", "resolve_turn"}
    /\ \E p \in DOMAIN world.stockpiles :
           /\ world.stockpiles[p].food < 20
           /\ last.before.stockpiles[p].food > world.stockpiles[p].food

\* ---------------------------------------------- visibility, rules.py 85-171
get_tiles_in_range(center, range_val, width, height) ==
    {Coord((center.x + dx) % width, (center.y + dy) % height) :
        <<dx, dy>> \in {d \in (-range_val..range_val) \X (-range_val..range_val) :
                           Abs(d[1]) + Abs(d[2]) <= range_val}}

\* what the units and cities of one owner see
SeenBy(state, owner) ==
    UNION ({get_tiles_in_range(state.units[u].loc, UNIT_STATS[state.units[u].type].sight,
                               state.map_width, state.map_height) :
               u \in {u \in DOMAIN state.units : state.units[u].owner = owner}}
           \cup
           {get_tiles_in_range(state.cities[c].loc, 3, state.map_width, state.map_height) :
               c \in {c \in DOMAIN state.cities : state.cities[c].owner = owner}})

get_visible_tiles(state, player_id) ==
    SeenBy(state, player_id)
    \cup UNION {SeenBy(state, state.players[i]) :
                   i \in {i \in 1..Len(state.players) :
                             /\ state.players[i] # player_id
                             /\ get_diplomatic_state(state, player_id, state.players[i])
                                    = "alliance"}}

\* the elements of a list that pass a test, in the list's order
RECURSIVE FilterTiles(_, _)
FilterTiles(tiles, visible_tiles) ==
    IF tiles = <<>> THEN <<>>
    ELSE IF Head(tiles).loc \in visible_tiles
    THEN <<Head(tiles)>> \o FilterTiles(Tail(tiles), visible_tiles)
    ELSE FilterTiles(Tail(tiles), visible_tiles)

redact_state(state, player_id) ==
    LET visible_tiles == get_visible_tiles(state, player_id)
    IN [state EXCEPT
           !.tiles = FilterTiles(@, visible_tiles),
           !.units = [u \in {u \in DOMAIN @ : @[u].loc \in visible_tiles} |-> @[u]],
           !.cities = [c \in {c \in DOMAIN @ : @[c].loc \in visible_tiles} |-> @[c]]]

\* GET /state of rest.py (lines 43-68) on a state the controller returned:
\* fog-of-war for an authenticated player, the full state without a token
StateFor(state, current_player) ==
    IF current_player # NoneStr THEN redact_state(state, current_player) ELSE state

\* GameState values of three players on a FogW x FogH map, as inputs of
\* get_visible_tiles and redact_state: unit 1 of "A" is a worker (sight 2) or
\* a scout (sight 3) in the middle of the map or in its corner, "B" has a
\* worker and "C" a worker and a city; "A" and "B", and "B" and "C", may be
\* allied, with the key of the table in either order.
Fog(t1, l1, city_owner, diplomacy) ==
    LET units == <<Trained(1, "A", t1, UNIT_STATS[t1].hp, l1),
                   Trained(2, "B", "worker", UNIT_STATS["worker"].hp, Coord(4, 2)),
                   Trained(3, "C", "worker", UNIT_STATS["worker"].hp, Coord(2, 4))>>
        city == City(1, city_owner, Coord(4, 4))
        base == GameState(MinOf(Seeds), generate_map(FogW, FogH, MinOf(Seeds)),
                          <<"A", "B", "C">>)
    IN [base EXCEPT
           !.map_width = FogW,
           !.map_height = FogH,
           !.units = units,
           !.cities = <<city>>,
           !.tiles = FieldTiles(base.tiles, units, city),
           !.stockpiles = [p \in {"A", "B", "C"} |-> ResourceBag(50, 20, 10, 0)],
           !.diplomacy = diplomacy,
           !.next_unit_id = 4,
           !.next_city_id = 2]

Treaties ==
    {EmptyDict,
     [k \in {<<"A", "B">>} |-> "alliance"],
     [k \in {<<"B", "A">>} |-> "alliance"],
     [k \in {<<"A", "B">>, <<"B", "C">>} |-> "alliance"],
     [k \in {<<"A", "B">>} |-> "war"]}

FogStates ==
    {Fog(t1, l1, city_owner, diplomacy) :
        t1 \in {"worker", "scout"}, l1 \in {Coord(2, 2), Coord(0, 0), Coord(0, 2)},
        city_owner \in {"B", "C"}, diplomacy \in Treaties}

FogInit ==
    /\ CtrlInit
    /\ world \in FogStates
    /\ last = NoCall

\* a call of get_visible_tiles
Look(player_id) ==
    /\ last' = [op |-> "get_visible_tiles", n |-> 1, before |-> world,
                player |-> player_id, result |-> get_visible_tiles(world, player_id)]
    /\ UNCHANGED <<world, ctrl_vars>>

\* a GET /state, with and without a player
View(current_player) ==
    /\ last' = [op |-> "get_game_state", n |-> 1, before |-> world,
                player |-> current_player, result |-> StateFor(world, current_player)]
    /\ UNCHANGED <<world, ctrl_vars>>

FogNext ==
    \/ \E player_id \in {"A", "B", "C"} : Look(player_id)
    \/ \E current_player \in {"A", "B", "C", NoneStr} : View(current_player)

SpecFog == FogInit /\ [][FogNext]_vars

Looked == last.op = "get_visible_tiles"

\* the player and the players directly allied with them
Friends(state, player) ==
    {player} \cup {state.players[i] : i \in {i \in 1..Len(state.players) :
                                               Allied(state, player, state.players[i])}}

Manhattan(a, b) == Abs(a.x - b.x) + Abs(a.y - b.y)

\* the distance on a map whose opposite edges are joined
Around(a, b, width, height) ==
    LET dx == Abs(a.x - b.x)
        dy == Abs(a.y - b.y)
    IN (IF dx <= width - dx THEN dx ELSE width - dx)
           + (IF dy <= height - dy THEN dy ELSE height - dy)

\* the coordinates of the map within sight of a unit, or within 3 of a city,
\* of one of the owners, under Manhattan distance
InSight(state, owners) ==
    {c \in {Coord(x, y) : x \in 0..(state.map_width - 1), y \in 0..(state.map_height - 1)} :
        \/ \E u \in DOMAIN state.units :
               /\ state.units[u].owner \in owners
               /\ Manhattan(c, state.units[u].loc) <= UNIT_STATS[state.units[u].type].sight
        \/ \E k \in DOMAIN state.cities :
               /\ state.cities[k].owner \in owners
               /\ Manhattan(c, state.cities[k].loc) <= 3}

\* the same under the distance of the joined map
InSightAround(state, owners) ==
    {c \in {Coord(x, y) : x \in 0..(state.map_width - 1), y \in 0..(state.map_height - 1)} :
        \/ \E u \in DOMAIN state.units :
               /\ state.units[u].owner \in owners
               /\ Around(c, state.units[u].loc, state.map_width, state.map_height)
                      <= UNIT_STATS[state.units[u].type].sight
        \/ \E k \in DOMAIN state.cities :
               /\ state.cities[k].owner \in owners
               /\ Around(c, state.cities[k].loc, state.map_width, state.map_height) <= 3}

VisibleAround ==
    Looked => last.result = InSightAround(last.before, Friends(last.before, last.player))

\* C31: get_visible_tiles(state, player) is exactly the set of coordinates
\* within Manhattan distance sight of a unit, or 3 of a city, of the player or
\* of a player directly allied with them, wherever on the map the units
\* stand; allies of allies contribute nothing.
C31_VisibleIsManhattan ==
    Looked => last.result = InSight(last.before, Friends(last.before, last.player))

Viewed == last.op = "get_game_state"

\* the reply holds exactly the tiles, units and cities of the state that
\* stand on the coordinates of the set, and the state is as it was
ExactlyWithin(visible) ==
    /\ {last.result.tiles[i] : i \in 1..Len(last.result.tiles)}
           = {last.before.tiles[i] : i \in {i \in 1..Len(last.before.tiles) :
                                               last.before.tiles[i].loc \in visible}}
    /\ DOMAIN last.result.units
           = {u \in DOMAIN last.before.units : last.before.units[u].loc \in visible}
    /\ \A u \in DOMAIN last.result.units : last.result.units[u] = last.before.units[u]
    /\ DOMAIN last.result.cities
           = {c \in DOMAIN last.before.cities : last.before.cities[c].loc \in visible}
    /\ \A c \in DOMAIN last.result.cities : last.result.cities[c] = last.before.cities[c]
    /\ world = last.before

RedactWithinAround ==
    Viewed =>
        IF last.player = NoneStr THEN last.result = last.before /\ world = last.before
        ELSE ExactlyWithin(InSightAround(last.before, Friends(last.before, last.player)))

\* C32: the redacted copy for a player holds exactly the tiles of the
\* player's visible set and exactly the units and cities whose loc is in it,
\* so nothing outside the Manhattan radius of the player's and their direct
\* allies' units and cities appears; the input state is unchanged; without a
\* player the full state is returned.
C32_RedactExact ==
    Viewed =>
        IF last.player = NoneStr THEN last.result = last.before /\ world = last.before
        ELSE ExactlyWithin(InSight(last.before, Friends(last.before, last.player)))

\* ------------------------------------------- broadcasts, websocket.py 53-68
\* _process_turn awaits broadcast_turn_start (line 281), broadcast_player_action
\* (line 289) and broadcast_turn_end (line 319); each awaits
\* connection.send_text for every listener of the game in turn. The handler
\* stands at "broadcast_turn_start", "broadcast_player_action" or
\* "broadcast_turn_end" while the send is under way, and ProcessCopy,
\* ProcessResolve and ProcessClear are its steps once the send has returned.
\* One handler serves the requests one after the other.
SinkNext ==
    \/ \E players \in PlayerLists : CreateGame(players, MinOf(Seeds))
    \/ \E call \in SerialSubmissions :
           audit.submits < MaxSerialSubmits /\ SubmitBegin(1, call[1], call[2])
    \/ Continue(1)

\* the steps that wait for the database only
OwnSteps(h) ==
    \/ SubmitStore(h)
    \/ ProcessUpdateState(h)
    \/ ProcessCache(h)
    \/ ProcessAfterSnapshot(h)
    \/ VictorySnapshot(h)
    \/ Finish(h)

\* the database answers every call; a listener may take any time, or
\* forever, to accept a message
SpecSink == Init /\ [][SinkNext]_vars /\ WF_vars(OwnSteps(1))

InBroadcast(h) ==
    handlers[h].pc \in {"broadcast_turn_start", "broadcast_player_action",
                        "broadcast_turn_end"}

\* unless the handler stays in a broadcast for ever, the turn is completed
CompletedUnlessHeld ==
    \/ <>[]InBroadcast(1)
    \/ InBroadcast(1) ~> (handlers[1].pc = "idle" /\ pending_actions = <<>>)

\* C33: a turn whose processing has begun is resolved, stored, and its
\* pending submissions are cleared, whatever the listeners of the broadcasts
\* do: the handler does not stay in a broadcast.
C33_BroadcastNeverBlocks ==
    InBroadcast(1) ~> (handlers[1].pc = "idle" /\ pending_actions = <<>>)

\* ------------------------------------------------------------- moves_left
\* the results of a resolved turn in the order the actions were executed,
\* for a game whose players have distinct names
RECURSIVE ResultsInOrder(_, _, _)
ResultsInOrder(results, players, i) ==
    IF i > Len(players) THEN <<>>
    ELSE (IF players[i] \in DOMAIN results THEN results[players[i]] ELSE <<>>)
             \o ResultsInOrder(results, players, i + 1)

\* the Manhattan distance unit_id covers by the successful MOVE actions of
\* the results, starting from loc
RECURSIVE Travel(_, _, _)
Travel(results, unit_id, loc) ==
    IF results = <<>> THEN 0
    ELSE LET r == Head(results)
         IN IF r.success /\ r.action.type = "MOVE" /\ r.action.id = unit_id
            THEN Manhattan(loc, r.action.to) + Travel(Tail(results), unit_id, r.action.to)
            ELSE Travel(Tail(results), unit_id, loc)

DistinctNames(state) ==
    \A i, j \in 1..Len(state.players) : state.players[i] = state.players[j] => i = j

MovesWithinBase(state) ==
    \A u \in DOMAIN state.units :
        /\ state.units[u].moves_left >= 0
        /\ state.units[u].moves_left <= UNIT_STATS[state.units[u].type].moves

\* C34: in every state every unit has 0 <= moves_left <= the base moves of
\* its type; a resolved turn starts every unit from its base moves, and the
\* Manhattan distance a unit covers by successful MOVE actions of one turn is
\* at most the base moves of its type (and is what its moves_left lacks).
C34_MovesWithinBase ==
    /\ MovesWithinBase(world)
    /\ (TurnDone /\ DistinctNames(last.before)) =>
           \A u \in DOMAIN last.before.units :
               LET far == Travel(ResultsInOrder(last.result.player_actions,
                                                last.before.players, 1),
                                 u, last.before.units[u].loc)
               IN /\ far <= UNIT_STATS[last.before.units[u].type].moves
                  /\ (u \in DOMAIN world.units
                      /\ world.units[u].type = last.before.units[u].type
                      /\ world.units[u].owner = last.before.units[u].owner) =>
                         world.units[u].moves_left
                             = UNIT_STATS[world.units[u].type].moves - far

\* a unit that had spent its moves moved again in the next turn, and its
\* third move of that turn was refused
C34_MovedAfterReset ==
    /\ TurnDone
    /\ DistinctNames(last.before)
    /\ last.before.units[1].moves_left = 0
    /\ 1 \in DOMAIN world.units
    /\ world.units[1].moves_left = 0
    /\ Travel(ResultsInOrder(last.result.player_actions, last.before.players, 1),
              1, last.before.units[1].loc) = 2
    /\ \E i \in 1..Len(last.result.player_actions["A"]) :
           ~last.result.player_actions["A"][i].success

\* ------------------------------------------------------------ ended games
FinalSnapshots == SnapshotsOfType(db_snapshots, "final")

\* the games row says ended and the final snapshot of that ending is stored
DurablyEnded == db_game.status = "ended" /\ FinalSnapshots # {}

\* C35: once a game is durably marked ended, no later step advances its turn
\* counter, changes its winner or victory type, stores another turn, or
\* writes another final snapshot.
C35_EndedStaysEnded ==
    [][DurablyEnded =>
          /\ db_game'.status = "ended"
          /\ db_game'.turn = db_game.turn
          /\ db_game'.winner = db_game.winner
          /\ db_game'.victory_type = db_game.victory_type
          /\ db_turns' = db_turns
          /\ SnapshotsOfType(db_snapshots', "final") = FinalSnapshots]_vars

\* ------------------------------------------------- whose entities a batch uses
\* the acting entity of an action is in the game: the unit of a MOVE, ATTACK
\* or FOUND_CITY, the city of a TRAIN_UNIT
ActorExists(state, action) ==
    IF action.cls = "TrainUnitAction" THEN action.id \in DOMAIN state.cities
    ELSE action.id \in DOMAIN state.units

ActorOwner(state, action) ==
    IF action.cls = "TrainUnitAction" THEN state.cities[action.id].owner
    ELSE state.units[action.id].owner

ActsOnEntity(action) ==
    action.cls \in {"MoveAction", "AttackAction", "FoundCityAction", "TrainUnitAction"}

\* actions[i] of player's batch, executed on state with outcome out, succeeds
\* only on an entity player owns
OwnAction(state, player, action, out) ==
    (~out.raised /\ out.result.success /\ ActsOnEntity(action) /\ ActorExists(state, action))
        => ActorOwner(state, action) = player

\* the batch of one player from actions[i] on, replayed as the inner loop of
\* resolve_turn runs it: the state after it, and whether every success so far
\* was on the player's own entities
RECURSIVE OwnBatch(_, _, _, _, _)
OwnBatch(state, player, actions, i, own) ==
    IF i > Len(actions) THEN [state |-> state, own |-> own]
    ELSE OwnBatch(ExecuteAction(state, actions[i]).state, player, actions, i + 1,
                  own /\ OwnAction(state, player, actions[i], ExecuteAction(state, actions[i])))

RECURSIVE OwnTurn(_, _, _, _)
OwnTurn(state, player_actions, order, k) ==
    IF k > Len(order) THEN TRUE
    ELSE /\ OwnBatch(state, order[k], DictGet(player_actions, order[k], <<>>), 1, TRUE).own
         /\ OwnTurn(OwnBatch(state, order[k], DictGet(player_actions, order[k], <<>>), 1, TRUE).state,
                    player_actions, order, k + 1)

\* C36: in a resolved turn, an action of player P's batch succeeds only when
\* its acting unit (MOVE, ATTACK, FOUND_CITY) or its city (TRAIN_UNIT) is
\* owned by P at the moment the action is executed.
C36_OnlyOwnEntities ==
    (TurnDone /\ DistinctNames(last.before))
        => OwnTurn(reset_unit_moves(last.before), last.player_actions,
                   last.before.players, 1)

\* ------------------------------------------------------- one unit per tile
\* C37: in every state reached from create_game by executed actions and
\* resolved turns, no two units of the game stand on the same coordinate.
C37_NoSharedLoc ==
    DistinctNames(world) =>
        \A u, v \in DOMAIN world.units :
            u # v => world.units[u].loc # world.units[v].loc

\* --------------------------------------------- batches stored during a turn
\* handler g is past line 283: it holds its copy of the pending batches and
\* has not yet cleared them
Copied(g) ==
    handlers[g].pc \in {"broadcast_player_action", "save_turn_result",
                        "update_game_state", "broadcast_turn_end"}

\* the pending batch entry is in the copy of a turn being processed
InACopy(entry) ==
    \E g \in Handlers :
        /\ Copied(g)
        /\ entry.player \in DictKeys(handlers[g].turn_actions)
        /\ DictGet(handlers[g].turn_actions, entry.player, <<>>) = entry.actions

\* line 322 is executed by handler h in this step
Clears(h) ==
    /\ handlers[h].pc = "broadcast_turn_end"
    /\ handlers'[h].pc # "broadcast_turn_end"
    /\ pending_actions' = <<>>

\* C38: a batch stored while a turn is being processed is not dropped by the
\* clearing of the pending batches: every batch the clearing removes is in
\* the copy of a turn being processed.
C38_NoBatchDiscarded ==
    [][\A h \in Handlers :
          Clears(h) => \A i \in 1..Len(pending_actions) : InACopy(pending_actions[i])]_vars

====
